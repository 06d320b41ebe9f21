--------------------------- MODULE DiscoverySweep ---------------------------
(***************************************************************************)
(* The network-discovery module: the sweep loop and the command task of    *)
(* modules/network-discovery/src/main.rs around the history store, its     *)
(* file, the devices that the supervisor lists for the module, and the web *)
(* module, which edits the same file from another process.                 *)
(*                                                                         *)
(* The store is behind one Mutex that both tasks hold from the change to   *)
(* the end of the save, so each of them is one action.  A device is the key *)
(* of its record, the MAC where it is known.  The supervisor lists devices *)
(* by the id of the record, net-<address> of the time it was made: it goes *)
(* with the record to other addresses and to another key, so that records  *)
(* can share an id.  How the devices of a sweep are matched to records is  *)
(* a choice here, which may drop a record in favour of a reported device.  *)
(***************************************************************************)
EXTENDS Integers, FiniteSets

CONSTANTS
  Devices,      \* keys of the history
  Ids,          \* device ids
  Documented,   \* devices with a category or a documentation entry
  SeedId,       \* the id of the record that is made for one of them
  Demo,         \* the ids of the demo devices of the configuration
  None,         \* no record
  Broken,       \* a file that is no JSON document, or an idle web module
  Sweeps,       \* bound: what a sweep can report
  MaxStarts,    \* bound: how often the module is started
  MaxFaults,    \* bound: saves and upserts that fail
  MaxEdits      \* bound: read-modify-write cycles of the web module

Record  == [id : Ids, state : {"active", "inactive"}]
History == [Devices -> Record \union {None}]
Listing == [Ids -> {"none", "active", "inactive", "demo"}]

ASSUME DeviceAssumption == Documented \subseteq Devices /\ SeedId \in [Documented -> Ids]
ASSUME SweepAssumption == Sweeps \subseteq History
ASSUME NoneAssumption == None \notin Record
ASSUME BrokenAssumption == Broken \notin History
ASSUME BoundAssumption == MaxStarts \in Nat /\ MaxFaults \in Nat /\ MaxEdits \in Nat

VARIABLES
  pc,           \* where main or the sweep loop stands
  store,        \* DeviceHistoryStore::records
  disk,         \* device_history.json
  trigger,      \* the trigger channel, of capacity 1, holds a token
  update,       \* the list about to be upserted
  inventory,    \* what the supervisor lists for the module
  web,          \* the copy of the file that the web module works on
  starts, faults, edits,
  owed,         \* a sweep was asked for after the last one began
  forgotten,    \* forgotten and not reported by a sweep since
  stale         \* the last upsert of the loop failed

vars == <<pc, store, disk, trigger, update, inventory, web, starts, faults, edits,
          owed, forgotten, stale>>
counters == <<starts, faults, edits>>

NoDevice == [d \in Devices |-> None]
NoListing == [i \in Ids |-> "none"]
Phases == {"down", "first_scan", "first_publish", "idle", "scanning", "publishing"}

\* The command task is spawned after the first upsert.
Serving == pc \notin {"down", "first_scan", "first_publish"}

-----------------------------------------------------------------------------
(* History                                                                 *)

\* load_from_path: a file that cannot be parsed is an empty history.
Loaded(file) == IF file = Broken THEN NoDevice ELSE file

Holders(history, id) == {d \in Devices : history[d] # None /\ history[d].id = id}

\* seed_known_devices: a key that is no MAC is looked up among the ids as well.
Seeded(history) ==
  {new \in History : \A d \in Devices :
     IF history[d] # None \/ d \notin Documented THEN new[d] = history[d]
     ELSE \/ new[d] = [id |-> SeedId[d], state |-> "inactive"]
          \/ new[d] = None /\ Holders(new, SeedId[d]) # {}}

\* reconcile_sweep: a device the sweep does not report becomes inactive, unless
\* its record is absorbed: taken over by a reported device that has its
\* address now, or merged into its record by cleanup_duplicates.
Reconciled(seen, absorbed, ids) ==
  [d \in Devices |-> IF seen[d] # None THEN [seen[d] EXCEPT !.id = ids[d]]
                     ELSE IF store[d] = None \/ d \in absorbed THEN None
                     ELSE [store[d] EXCEPT !.state = "inactive"]]

Reported(seen) == {d \in Devices : seen[d] # None}

\* The ids of the reported devices.  Each has that of the record it is matched
\* with: its own, an absorbed one, or that of a device reported elsewhere.  One
\* that is matched with none, perhaps because another device has taken over
\* its record, has the id it is reported with.
Matched(seen, absorbed) ==
  LET taken == {store[d].id : d \in {d \in Reported(seen) \union absorbed : store[d] # None}}
  IN {ids \in [Reported(seen) -> Ids] : \A d \in Reported(seen) :
        \/ ids[d] \in taken
        \/ ids[d] = seen[d].id /\ (store[d] = None \/ Reported(seen) # {d})}

Absorbable(seen) ==
  IF seen = NoDevice THEN {} ELSE Devices \ Reported(seen)

\* append_demo_devices, and what the supervisor makes of the list: of the
\* records that share an id it keeps the last one of the list, whose order is
\* that of a HashMap.
Lists(list, history) ==
  \A i \in Ids :
    \/ \E d \in Holders(history, i) : list[i] = history[d].state
    \/ Holders(history, i) = {} /\ list[i] = IF i \in Demo THEN "demo" ELSE "none"

Listed(history) == {list \in Listing : Lists(list, history)}

\* A save that fails has left the file alone or has truncated it.
Save(new) ==
  \/ disk' = new /\ UNCHANGED faults
  \/ faults < MaxFaults /\ faults' = faults + 1 /\ disk' \in {disk, Broken}

-----------------------------------------------------------------------------
(* main and the sweep loop                                                 *)

\* A module registers only with a new supervisor, whose inventory is empty.
Start ==
  /\ pc = "down"
  /\ starts < MaxStarts
  /\ starts' = starts + 1
  /\ pc' = "first_scan"
  /\ store' \in Seeded(Loaded(disk))
  /\ inventory' \in {NoListing} \union Listed(NoDevice)
  /\ UNCHANGED <<disk, trigger, update, web, faults, edits, owed, forgotten, stale>>

Tick ==
  /\ pc = "idle"
  /\ pc' = "scanning"
  /\ owed' = FALSE
  /\ UNCHANGED <<store, disk, trigger, update, inventory, web, counters, forgotten, stale>>

Receive ==
  /\ pc = "idle"
  /\ trigger
  /\ trigger' = FALSE
  /\ pc' = "scanning"
  /\ owed' = FALSE
  /\ UNCHANGED <<store, disk, update, inventory, web, counters, forgotten, stale>>

AfterScan(list) ==
  IF pc = "first_scan" THEN "first_publish"
  ELSE IF list = NoListing THEN "idle" ELSE "publishing"

\* Mutant: the history is not saved after a sweep.
FinishScan_NoSave(seen) ==
  /\ pc \in {"first_scan", "scanning"}
  /\ \E absorbed \in SUBSET Absorbable(seen) : \E ids \in Matched(seen, absorbed) :
       store' = Reconciled(seen, absorbed, ids)
  /\ update' \in Listed(store')
  /\ pc' = AfterScan(update')
  /\ forgotten' = forgotten \ Reported(seen)
  /\ UNCHANGED <<disk, faults, trigger, inventory, web, starts, edits, owed, stale>>

\* A scan that fails counts as one that saw nothing.
FinishScan(seen) ==
  /\ pc \in {"first_scan", "scanning"}
  /\ \E absorbed \in SUBSET Absorbable(seen) : \E ids \in Matched(seen, absorbed) :
       store' = Reconciled(seen, absorbed, ids)
  /\ Save(store')
  /\ update' \in Listed(store')
  /\ pc' = AfterScan(update')
  /\ forgotten' = forgotten \ Reported(seen)
  /\ UNCHANGED <<trigger, inventory, web, starts, edits, owed, stale>>

Publish ==
  /\ pc \in {"first_publish", "publishing"}
  /\ pc' = "idle"
  /\ inventory' = update
  /\ update' = NoListing
  /\ stale' = FALSE
  /\ UNCHANGED <<store, disk, trigger, web, counters, owed, forgotten>>

\* Mutant: the loop ends on the first error.
PublishFails_Break ==
  /\ pc = "publishing"
  /\ faults < MaxFaults
  /\ faults' = faults + 1
  /\ pc' = "ended"
  /\ UNCHANGED <<store, disk, trigger, update, inventory, web, starts, edits, owed,
                 forgotten, stale>>

\* The upsert fails, or is applied and its answer lost: the loop goes on.
PublishFails ==
  /\ pc = "publishing"
  /\ faults < MaxFaults
  /\ faults' = faults + 1
  /\ pc' = "idle"
  /\ inventory' \in {inventory, update}
  /\ update' = NoListing
  /\ stale' = TRUE
  /\ UNCHANGED <<store, disk, trigger, web, starts, edits, owed, forgotten>>

\* The module dies, perhaps in the middle of fs::write, or main returns
\* because the first upsert failed.
Die ==
  /\ pc # "down"
  /\ pc' = "down"
  /\ disk' \in IF pc = "first_publish" THEN {disk} ELSE {disk, Broken}
  /\ store' = NoDevice
  /\ update' = NoListing
  /\ trigger' = FALSE
  /\ owed' = FALSE
  /\ UNCHANGED <<inventory, web, counters, forgotten, stale>>

-----------------------------------------------------------------------------
(* The command task                                                        *)

\* Mutant: a request that comes during a sweep is taken as served by it.
HandleScan_WhenIdle ==
  /\ Serving
  /\ trigger' = (trigger \/ pc = "idle")
  /\ owed' = TRUE
  /\ UNCHANGED <<pc, store, disk, update, inventory, web, counters, forgotten, stale>>

\* try_send on the full channel fails, and the token in it serves both.
HandleScan ==
  /\ Serving
  /\ trigger' = TRUE
  /\ owed' = TRUE
  /\ UNCHANGED <<pc, store, disk, update, inventory, web, counters, forgotten, stale>>

\* forget_device removes every record that has the given id or key.
Meant(needle) ==
  {d \in Devices : store[d] # None /\ (d = needle \/ store[d].id = needle)}

Without(gone) == [d \in Devices |-> IF d \in gone THEN None ELSE store[d]]

\* Mutant: no rescan after a device was forgotten.
HandleForget_NoRescan(needle) ==
  /\ Serving
  /\ Meant(needle) # {}
  /\ store' = Without(Meant(needle))
  /\ Save(store')
  /\ forgotten' = forgotten \union Meant(needle)
  /\ UNCHANGED <<pc, trigger, update, inventory, web, starts, edits, owed, stale>>

\* Mutant: the history is not saved after a device was forgotten.
HandleForget_NoSave(needle) ==
  /\ Serving
  /\ Meant(needle) # {}
  /\ store' = Without(Meant(needle))
  /\ trigger' = TRUE
  /\ owed' = TRUE
  /\ forgotten' = forgotten \union Meant(needle)
  /\ UNCHANGED <<pc, disk, update, inventory, web, counters, stale>>

\* A device that the history does not hold is passed over.
HandleForget(needle) ==
  /\ Serving
  /\ Meant(needle) # {}
  /\ store' = Without(Meant(needle))
  /\ Save(store')
  /\ trigger' = TRUE
  /\ owed' = TRUE
  /\ forgotten' = forgotten \union Meant(needle)
  /\ UNCHANGED <<pc, update, inventory, web, starts, edits, stale>>

-----------------------------------------------------------------------------
(* The web module: a name is edited, or a device answered a ping.          *)

WebRead ==
  /\ web = Broken
  /\ disk # Broken
  /\ edits < MaxEdits
  /\ edits' = edits + 1
  /\ web' = disk
  /\ UNCHANGED <<pc, store, disk, trigger, update, inventory, starts, faults, owed,
                 forgotten, stale>>

WebWrite ==
  /\ web # Broken
  /\ web' = Broken
  /\ \/ \E d \in Devices : /\ web[d] # None
                           /\ disk' \in {web, [web EXCEPT ![d].state = "active"]}
     \/ web = NoDevice /\ UNCHANGED disk
  /\ UNCHANGED <<pc, store, trigger, update, inventory, counters, owed, forgotten, stale>>

-----------------------------------------------------------------------------
Init ==
  /\ pc = "down"
  /\ store = NoDevice
  /\ disk = NoDevice
  /\ trigger = FALSE
  /\ update = NoListing
  /\ inventory = NoListing
  /\ web = Broken
  /\ starts = 0 /\ faults = 0 /\ edits = 0
  /\ owed = FALSE
  /\ forgotten = {}
  /\ stale = FALSE

SweepNext ==
  \/ Tick \/ Receive \/ Publish \/ PublishFails
  \/ \E seen \in Sweeps : FinishScan(seen)

Next ==
  \/ SweepNext
  \/ Start \/ Die
  \/ HandleScan \/ (\E needle \in Devices \union Ids : HandleForget(needle))
  \/ WebRead \/ WebWrite

\* The loop goes on while the module lives; each of its steps moves pc.
LoopMoves == pc \in Phases \ {"down"} /\ pc' \in Phases \ {"down"}

\* Scans and calls end, by their timeouts, and the ticker fires: the loop
\* never stops.  Faults are finitely many (MaxFaults).
Spec     == Init /\ [][Next]_vars
FairSpec == Spec /\ WF_pc(LoopMoves)

-----------------------------------------------------------------------------
TypeOK ==
  /\ pc \in Phases
  /\ store \in History
  /\ disk \in History \union {Broken}
  /\ trigger \in BOOLEAN
  /\ update \in Listing
  /\ inventory \in Listing
  /\ web \in History \union {Broken}
  /\ starts \in 0..MaxStarts
  /\ faults \in 0..MaxFaults
  /\ edits \in 0..MaxEdits
  /\ owed \in BOOLEAN
  /\ forgotten \subseteq Devices
  /\ stale \in BOOLEAN

\* A request for a sweep is never taken as served by a sweep that had begun
\* before it: the token stays in the channel until the next one begins
\* (main.rs 237, 246 and 277).
RequestKept == owed => trigger

\* When the loop is idle, no token is waiting and the last upsert succeeded,
\* the supervisor lists exactly the ids of the history and of the demo devices,
\* each with the state of a record that has the id, whatever was forgotten
\* during scans and upserts.  The empty list is the exception: it is never sent
\* (main.rs 300).
Settled ==
  (pc = "idle" /\ ~trigger /\ ~stale)
    => (Lists(NoListing, store) \/ Lists(inventory, store))

\* A forgotten device that is not documented stays away from the history, over
\* any restarts, until a sweep reports it: "If this device connects to the
\* network again in the future, it will be rediscovered."
\* (modules/web/src/main.rs:5662).  A save that failed and an edit of the web
\* module can bring it back, and so does a documentation entry (history.rs 391).
ForgottenStaysAway ==
  faults = 0 /\ edits = 0 => \A d \in forgotten \ Documented : store[d] = None

\* A sweep that was asked for is begun, although failed upserts, further
\* requests and the ticker come in between.
SweepBegins == owed ~> ~owed

\* Every record with the id is gone.
Gone(id) == Serving /\ Holders(store, id) = {}

\* An id that no record has any more leaves the supervisor's list, whether its
\* device was forgotten or its record taken over by another one, unless a
\* record comes to have it, nothing is left to list, or the module dies.
ForgetPublished ==
  \A i \in Ids :
    Gone(i) ~> (inventory[i] \in {"none", "demo"} \/ ~Gone(i) \/ Lists(NoListing, store))

\* Every command of the supervisor takes its effect in the end.
CommandsServed == SweepBegins /\ ForgetPublished

\* What a lost update of the web module or a failed save has done to the file
\* is repaired by a later sweep, unless the module dies before.
FileRepaired == (Serving /\ disk # store) ~> (disk = store \/ pc = "down")
=============================================================================
