----------------------------- MODULE Supervisor -----------------------------
(***************************************************************************)
(* The supervisor daemon: run_config_with_shutdown, launch_modules,        *)
(* monitor_children and stop_children of crates/homenode-server/src/lib.rs *)
(* around the inventory of RuntimeState, with the module processes and     *)
(* their control calls.                                                    *)
(*                                                                         *)
(* Every call is a request that the gRPC server has accepted and whose     *)
(* handler has not yet got the state lock: handlers run in any order, and  *)
(* a handler may run after its client has died, or be dropped with the     *)
(* client's connection.  A module process is either the child that this    *)
(* supervisor spawned or an outsider: a process of the same module started *)
(* by hand (tests/smoke.rs 212-219), or left over by a supervisor that was *)
(* killed, which the new supervisor neither polls nor stops.               *)
(***************************************************************************)
EXTENDS RuntimeState

CONSTANTS
  Managed,      \* ids of the modules enabled in the configuration
  Outsiders,    \* ids of which a process may run that is not a child
  Subscribers,  \* ids of the modules that hold a command stream while up
  Calls,        \* bound: slots for calls in flight at the same time
  MaxStarts     \* bound: how often the supervisor is started

ASSUME ManagedAssumption ==
  /\ Managed \subseteq KnownIds
  /\ Outsiders \subseteq KnownIds
ASSUME StartAssumption == MaxStarts \in Nat \ {0}
ASSUME HealthAssumption == {"Starting", "Ready"} \subseteq HealthStates

VARIABLES
  phase,        \* where run_config_with_shutdown stands
  starts,       \* supervisor processes so far
  launched,     \* the children list
  exited,       \* ManagedChild::exited
  monitor,      \* the monitor task runs
  polling,      \* children its current tick has yet to visit
  marking,      \* the child it is about to mark disconnected
  killing,      \* children stop_children has yet to visit
  proc,         \* the module processes
  call          \* the calls in flight

supervisorVars == <<phase, starts, launched, exited, monitor, polling, marking,
                    killing>>
vars == <<modules, devices, supervisorVars, proc, call>>

Child(m)    == <<m, "child">>
Outsider(m) == <<m, "outsider">>
Procs == {Child(m) : m \in Managed} \union {Outsider(m) : m \in Outsiders}

Phases == {"launching", "serving", "stopping", "killing", "joining",
           "returned", "crashed"}
Running   == phase \notin {"returned", "crashed"}
Accepting == phase \in {"launching", "serving"}

\* A process has not connected yet ("boot"), waits for the answer to its
\* registration ("joining") or serves ("up").  A dead child stays a zombie
\* ("gone") until the monitor polls it.
Live  == {"boot", "joining", "up"}
Alive(p) == proc[p] \in Live
Ended(p) == IF p[2] = "child" THEN "gone" ELSE "none"

Registration(id) ==
  [manifest |-> id,
   initial_health |-> [module_id |-> id, state |-> "Starting"]]
Report(id) == [module_id |-> id, state |-> "Ready"]
OwnBatches(id) == {ds \in Batches : \A i \in DOMAIN ds : ds[i].module_id = id}
Upserts(id) == [module_id : {id}, devices : OwnBatches(id), replace_all : BOOLEAN]

CallsOf(p) ==
  [from : {p}, op : {"register"}, req : {Registration(p[1])}] \union
  [from : {p}, op : {"health"},   req : {Report(p[1])}] \union
  [from : {p}, op : {"upsert"},   req : Upserts(p[1])]
AllCalls == UNION {CallsOf(p) : p \in Procs}
NoCalls == [c \in Calls |-> Missing]
InFlight == {c \in Calls : call[c] # Missing}
Silent(m) ==
  /\ \A p \in Procs : p[1] = m => ~Alive(p)
  /\ \A c \in InFlight : call[c].from[1] # m

-----------------------------------------------------------------------------
(* Module processes                                                        *)

\* The main of a module connects and registers, then serves.
Join(p, c) ==
  /\ Accepting
  /\ proc[p] = "boot"
  /\ call[c] = Missing
  /\ call' = [call EXCEPT ![c] = [from |-> p, op |-> "register",
                                  req |-> Registration(p[1])]]
  /\ proc' = [proc EXCEPT ![p] = "joining"]
  /\ UNCHANGED <<state, supervisorVars>>

Issue(p, c) ==
  /\ Accepting
  /\ proc[p] = "up"
  /\ call[c] = Missing
  /\ \E new \in CallsOf(p) :
       /\ new.op # "register"
       /\ call' = [call EXCEPT ![c] = new]
  /\ UNCHANGED <<state, supervisorVars, proc>>

\* A process dies at any moment: an error in its main, a panic, a signal.
Exit(p) ==
  /\ Alive(p)
  /\ proc' = [proc EXCEPT ![p] = Ended(p)]
  /\ UNCHANGED <<state, supervisorVars, call>>

StartOutsider(m) ==
  /\ proc[Outsider(m)] = "none"
  /\ \A c \in InFlight : call[c].from # Outsider(m)
  /\ proc' = [proc EXCEPT ![Outsider(m)] = "boot"]
  /\ UNCHANGED <<state, supervisorVars, call>>

-----------------------------------------------------------------------------
(* gRPC handlers                                                           *)

\* The answer to its registration lets a module serve or ends it.
Answer(p, next) ==
  proc' = [proc EXCEPT ![p] = IF @ = "joining" THEN next ELSE @]

HandleRegister(c) ==
  /\ call[c].op = "register"
  /\ \/ RegisterModule(call[c].req) /\ Answer(call[c].from, "up")
     \/ /\ RejectRegistration(call[c].req)
        /\ Answer(call[c].from, Ended(call[c].from))

HandleHealth(c) ==
  /\ call[c].op = "health"
  /\ UpdateHealth(call[c].req) \/ RejectHealth(call[c].req)
  /\ UNCHANGED proc

HandleUpsert(c) ==
  /\ call[c].op = "upsert"
  /\ ReplaceDevices(call[c].req) \/ RejectUpsert(call[c].req)
  /\ UNCHANGED proc

Handle(c) ==
  /\ Running
  /\ call[c] # Missing
  /\ HandleRegister(c) \/ HandleHealth(c) \/ HandleUpsert(c)
  /\ call' = [call EXCEPT ![c] = Missing]
  /\ UNCHANGED supervisorVars

\* The connection of a dead client is reset before its handler ran.
LoseCall(c) ==
  /\ call[c] # Missing
  /\ ~Alive(call[c].from)
  /\ call' = [call EXCEPT ![c] = Missing]
  /\ UNCHANGED <<state, supervisorVars, proc>>

-----------------------------------------------------------------------------
(* launch_modules                                                          *)

\* Mutant: a child that died is spawned again.
SpawnModule_Respawn(m) ==
  /\ phase \in {"launching", "serving"}
  /\ m \in Managed \ launched \/ proc[Child(m)] = "gone"
  /\ launched' = launched \union {m}
  /\ proc' = [proc EXCEPT ![Child(m)] = "boot"]
  /\ UNCHANGED <<state, phase, starts, exited, monitor, polling, marking,
                 killing, call>>

SpawnModule(m) ==
  /\ phase = "launching"
  /\ m \in Managed \ launched
  /\ launched' = launched \union {m}
  /\ proc' = [proc EXCEPT ![Child(m)] = "boot"]
  /\ UNCHANGED <<state, phase, starts, exited, monitor, polling, marking,
                 killing, call>>

LaunchDone ==
  /\ phase = "launching"
  /\ launched = Managed
  /\ phase' = "serving"
  /\ monitor' = TRUE
  /\ UNCHANGED <<state, starts, launched, exited, polling, marking, killing,
                 proc, call>>

\* A process whose registration can no longer be answered ends.
Unanswered(p) == IF proc[p] = "joining" THEN Ended(p) ELSE proc[p]

\* Mutant: children are spawned without kill_on_drop.
Leave_KeepChildren ==
  /\ phase' = "returned"
  /\ proc' = [p \in Procs |-> Unanswered(p)]
  /\ call' = NoCalls
  /\ monitor' = FALSE
  /\ UNCHANGED <<state, starts, launched, exited, polling, marking, killing>>

\* run_config_with_shutdown returns: the children list is dropped, and
\* kill_on_drop kills what still runs.
Leave ==
  /\ phase' = "returned"
  /\ proc' = [p \in Procs |->
               IF p[2] = "child" /\ p[1] \in launched /\ Alive(p) THEN "gone"
               ELSE Unanswered(p)]
  /\ call' = NoCalls
  /\ monitor' = FALSE
  /\ UNCHANGED <<state, starts, launched, exited, polling, marking, killing>>

\* A program that cannot be spawned ends the launch and the supervisor.
SpawnFails == phase = "launching" /\ launched # Managed /\ Leave

-----------------------------------------------------------------------------
(* monitor_children: one tick visits every child under the children lock,  *)
(* which is taken exactly while polling is not empty.                      *)

MonitorTick ==
  /\ monitor
  /\ polling = {}
  /\ phase # "killing"
  /\ polling' = launched
  /\ UNCHANGED <<state, phase, starts, launched, exited, monitor, marking,
                 killing, proc, call>>

\* Children already given up and children that still run are passed over.
PollSkip(m) ==
  /\ m \in polling
  /\ marking = Missing
  /\ exited[m] \/ Alive(Child(m))
  /\ polling' = polling \ {m}
  /\ UNCHANGED <<state, phase, starts, launched, exited, monitor, marking,
                 killing, proc, call>>

\* Mutant: the exited flag is not set, so the child is still watched.
PollGiveUp_NoFlag(m) ==
  /\ m \in polling
  /\ marking = Missing
  /\ ~exited[m]
  /\ marking' = m
  /\ UNCHANGED <<state, phase, starts, launched, exited, monitor, polling,
                 killing, proc, call>>

\* try_wait reaps a dead child, or fails for whatever state it is in: either
\* way the child is given up for good, and the state lock is asked for.
PollGiveUp(m) ==
  /\ m \in polling
  /\ marking = Missing
  /\ ~exited[m]
  /\ exited' = [exited EXCEPT ![m] = TRUE]
  /\ marking' = m
  /\ UNCHANGED <<state, phase, starts, launched, monitor, polling, killing,
                 proc, call>>

\* Mutant: the exit is logged but the inventory is not told.
PollMark_NoMark(m) ==
  /\ marking = m
  /\ marking' = Missing
  /\ polling' = polling \ {m}
  /\ UNCHANGED <<state, phase, starts, launched, exited, monitor, killing, proc,
                 call>>

PollMark(m) ==
  /\ marking = m
  /\ MarkDisconnected(m)
  /\ marking' = Missing
  /\ polling' = polling \ {m}
  /\ UNCHANGED <<phase, starts, launched, exited, monitor, killing, proc, call>>

\* Mutant: the monitor is told to stop only after it has been joined.
MonitorExit_Late ==
  /\ monitor
  /\ polling = {}
  /\ phase = "returned"
  /\ monitor' = FALSE
  /\ UNCHANGED <<state, phase, starts, launched, exited, polling, marking,
                 killing, proc, call>>

MonitorExit ==
  /\ monitor
  /\ polling = {}
  /\ phase \in {"stopping", "killing", "joining"}
  /\ monitor' = FALSE
  /\ UNCHANGED <<state, phase, starts, launched, exited, polling, marking,
                 killing, proc, call>>

-----------------------------------------------------------------------------
(* Shutdown                                                                *)

ShutdownSignal ==
  /\ phase = "serving"
  /\ phase' = "stopping"
  /\ UNCHANGED <<state, starts, launched, exited, monitor, polling, marking,
                 killing, proc, call>>

\* stop_children waits for the children lock.
StopChildren ==
  /\ phase = "stopping"
  /\ polling = {}
  /\ killing' = launched
  /\ phase' = IF launched = {} THEN "joining" ELSE "killing"
  /\ UNCHANGED <<state, starts, launched, exited, monitor, polling, marking,
                 proc, call>>

\* Child::kill succeeds (or finds the child reaped), or fails with a warning;
\* a child marked exited is not killed at all.
StopChild(m) ==
  /\ m \in killing
  /\ \/ /\ ~exited[m]
        /\ exited' = [exited EXCEPT ![m] = TRUE]
        /\ proc' = [proc EXCEPT ![Child(m)] = "gone"]
     \/ UNCHANGED <<exited, proc>>
  /\ killing' = killing \ {m}
  /\ phase' = IF killing' = {} THEN "joining" ELSE phase
  /\ UNCHANGED <<state, starts, launched, monitor, polling, marking, call>>

\* The gRPC server drains: it waits for handlers and for open command streams.
Streaming(p) == proc[p] = "up" /\ p[1] \in Subscribers
Drained == InFlight = {} /\ \A p \in Procs : ~Streaming(p)

Return == phase = "joining" /\ ~monitor /\ Drained /\ Leave

\* SIGTERM or SIGKILL: nothing of the shutdown code runs and children that
\* still run are left to themselves.  (Bound: at most one outsider per id.)
Crash ==
  /\ Running
  /\ phase' = "crashed"
  /\ proc' = [p \in Procs |->
               IF p[2] = "child" THEN "none"
               ELSE IF /\ ~Alive(p)
                       /\ p[1] \in Managed
                       /\ proc[Child(p[1])] \in {"boot", "up"}
                    THEN proc[Child(p[1])]
                    ELSE Unanswered(p)]
  /\ call' = NoCalls
  /\ polling' = {}
  /\ marking' = Missing
  /\ killing' = {}
  /\ monitor' = FALSE
  /\ UNCHANGED <<state, starts, launched, exited>>

Start ==
  /\ ~Running
  /\ starts < MaxStarts
  /\ starts' = starts + 1
  /\ Reset
  /\ phase' = "launching"
  /\ launched' = {}
  /\ exited' = [m \in Managed |-> FALSE]
  /\ proc' = [p \in Procs |-> IF p[2] = "child" THEN "none" ELSE proc[p]]
  /\ UNCHANGED <<monitor, polling, marking, killing, call>>

-----------------------------------------------------------------------------
Init ==
  /\ StateInit
  /\ phase = "launching"
  /\ starts = 1
  /\ launched = {}
  /\ exited = [m \in Managed |-> FALSE]
  /\ monitor = FALSE
  /\ polling = {}
  /\ marking = Missing
  /\ killing = {}
  /\ proc = [p \in Procs |-> "none"]
  /\ call = NoCalls

ModuleNext ==
  \/ \E p \in Procs : Exit(p)
  \/ \E p \in Procs, c \in Calls : Join(p, c) \/ Issue(p, c)
  \/ \E m \in Outsiders : StartOutsider(m)

ServerNext == \E c \in Calls : Handle(c) \/ LoseCall(c)

MonitorNext ==
  \/ MonitorTick
  \/ \E m \in Managed : PollSkip(m) \/ PollGiveUp(m) \/ PollMark(m)
  \/ MonitorExit

LaunchNext == LaunchDone \/ SpawnFails \/ \E m \in Managed : SpawnModule(m)
StopNext == StopChildren \/ Return \/ \E m \in Managed : StopChild(m)

Next ==
  \/ ModuleNext \/ ServerNext \/ MonitorNext \/ LaunchNext \/ StopNext
  \/ ShutdownSignal \/ Crash \/ Start

\* The tasks of the supervisor run until they wait.  The children lock is a
\* tokio Mutex, granted in the order of the requests, and a tick is due only
\* every 500 ms, so neither stop_children nor the stop branch of the select
\* can be passed over forever: strong fairness.  Modules and signals promise
\* nothing.
Fairness ==
  /\ WF_vars(ServerNext)
  /\ WF_vars(MonitorNext)
  /\ WF_vars(LaunchDone)
  /\ WF_vars(StopNext)
  /\ SF_vars(StopChildren)
  /\ SF_vars(MonitorExit)

Spec     == Init /\ [][Next]_vars
FairSpec == Spec /\ Fairness

-----------------------------------------------------------------------------
ControlTypeOK ==
  /\ phase \in Phases
  /\ starts \in 1..MaxStarts
  /\ launched \subseteq Managed
  /\ exited \in [Managed -> BOOLEAN]
  /\ monitor \in BOOLEAN
  /\ polling \subseteq launched
  /\ marking \in Managed \union {Missing}
  /\ killing \subseteq launched
  /\ proc \in [Procs -> Live \union {"none", "gone"}]
  /\ call \in [Calls -> AllCalls \union {Missing}]

\* Every child process that runs is on the children list.
ChildrenListed == \A m \in Managed : Alive(Child(m)) => m \in launched

TypeOK == StateTypeOK /\ ControlTypeOK /\ ChildrenListed

\* The children lock: a tick of the monitor and stop_children never overlap,
\* a child is marked only inside a tick that gave it up, and neither outlives
\* the phase it belongs to (lib.rs 216 and 257 take the lock for the loop).
LockDiscipline ==
  /\ monitor => phase \in {"serving", "stopping", "killing", "joining"}
  /\ polling # {} => monitor /\ killing = {}
  /\ marking # Missing => marking \in polling /\ exited[marking]
  /\ killing # {} => phase = "killing"

Disconnected(m) == m \in Registered /\ ~modules[m].connected

\* No false alarm: the inventory shows a module as disconnected only when the
\* monitor has given up its child, never because of a late, repeated or
\* rejected call or of another module's death (lib.rs 203-254).
NoFalseAlarm == \A m \in Registered :
  Disconnected(m) => m \in Managed /\ exited[m]

\* A module that is down and of which no process lives and no call is in
\* flight stays down for the rest of the supervisor's life, unless somebody
\* starts it by hand: nothing in the supervisor revives it or its mark
\* (lib.rs 216-219 skips it, launch_modules runs once).
Dead(m) == Disconnected(m) /\ Silent(m)
DeadStaysDead ==
  [][\A m \in Managed :
       Dead(m) => \/ Dead(m)'
                  \/ m \in Outsiders /\ StartOutsider(m)
                  \/ Start]_vars

\* Of the processes of one module, the child and those started by hand, at most
\* one ever serves: the first whose registration gets the state lock, even when it
\* has died since; every other one is refused and ends (service.rs 49-56).  A later
\* supervisor starts with an empty inventory, so a process that was left over may
\* serve beside its child.
Serves(p) == proc[p] = "up"
OneServes ==
  starts = 1 => \A p, q \in Procs : p[1] = q[1] /\ Serves(p) /\ Serves(q) => p = q

\* Whatever try_wait and kill answered, no child runs once
\* run_config_with_shutdown has returned (lib.rs 117-127, kill_on_drop 192).
NoChildSurvives ==
  phase = "returned" => \A m \in Managed : ~Alive(Child(m))

\* A child that dies while the supervisor serves and still watches it is
\* noticed: its exit is recorded and its inventory entry, if it has one, is
\* disconnected (a child given up after a failed poll is no longer watched).
CrashNoticed == \A m \in Managed :
  (phase = "serving" /\ proc[Child(m)] = "gone" /\ ~exited[m])
    ~> (phase # "serving" \/ (exited[m] /\ (m \in Registered => Disconnected(m))))

\* A shutdown ends: the monitor and stop_children do not block each other, and
\* the drain can wait for nothing but a process that the supervisor failed to
\* kill, or that is not its child, and that keeps holding a command stream.
ShutdownEnds ==
  phase = "stopping"
    ~> (~Running \/ []<>(phase = "joining" /\ \E p \in Procs : Streaming(p)))
=============================================================================
