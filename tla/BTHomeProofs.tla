---------------------------- MODULE BTHomeProofs ----------------------------
(***************************************************************************)
(* Theorems about BTHome for any number of connections, requests, gateways *)
(* and devices, any messages, any window and any length of the event log.  *)
(* The invariant has four parts, and each leans on the ones before it: the *)
(* shapes of what the tasks hold, the packet window, the telemetry with    *)
(* what the tasks are about to store, and the sessions.                    *)
(***************************************************************************)
EXTENDS BTHome, FiniteSetTheorems, SequenceTheorems, TLAPS

IsSeq(s) == s \in Seq({s[i] : i \in DOMAIN s})

TaskShape ==
  /\ DOMAIN task = Tasks
  /\ \A t \in Tasks : /\ DOMAIN task[t] = {"at", "items", "meta"}
                      /\ DOMAIN task[t].meta = {"values", "stamp"}

\* The history of the window, and what the window still knows of it: a record
\* is the latest packet of its key, and what was pruned is older than a window.
WindowInv ==
  /\ now \in Nat
  /\ IsSeq(admitted)
  /\ \A i \in DOMAIN admitted : admitted[i].at \in 0..now
  /\ \A k \in DOMAIN records :
       /\ records[k] \in 0..now
       /\ \E i \in DOMAIN admitted : admitted[i].key = k /\ admitted[i].at = records[k]
  /\ \A i \in DOMAIN admitted :
       \/ admitted[i].key \in DOMAIN records /\ admitted[i].at <= records[admitted[i].key]
       \/ now - admitted[i].at >= Window

\* What a task is handling, and what a map of telemetry says of a device.
Current(x) == Head(x.items)
Mac(x) == Current(x).mac
Holds(x) == x.at \in {"store", "log", "upsert", "calling"}
Sends(x) == x.at \in {"log", "upsert", "calling"}
Values(known, d) == IF d \in DOMAIN known THEN known[d].values ELSE <<>>

\* A device that is not raced is in the hands of one task, which holds what the
\* telemetry has, or is about to put there what the packet adds to it.
TelemetryInv ==
  /\ DOMAIN battery \subseteq DOMAIN telemetry
  /\ \A t, u \in Tasks :
       /\ Holds(task[t]) /\ Holds(task[u])
       /\ Mac(task[t]) = Mac(task[u]) /\ Mac(task[t]) \notin raced
       => t = u
  /\ \A t \in Tasks : Holds(task[t]) /\ Mac(task[t]) \notin raced =>
       /\ task[t].at = "store" =>
            task[t].meta.values = Overlaid(Current(task[t]).readings,
                                           Values(telemetry, Mac(task[t])))
       /\ task[t].at # "store" =>
            Mac(task[t]) \in DOMAIN telemetry /\ telemetry[Mac(task[t])] = task[t].meta
  /\ \A d \in DOMAIN telemetry \ (raced \cup unsent) :
       \/ \E t \in Tasks : Sends(task[t]) /\ Mac(task[t]) = d
       \/ d \in DOMAIN inventory /\ inventory[d] = telemetry[d]

\* The parts of SessionsRight.  The worker ingests only what it synchronises, so
\* that it never waits for its own snapshot.
LogInv == IsSeq(events) /\ Len(events) <= LogSize

GatewayInv ==
  /\ peer \in [Sockets -> Gateways]
  /\ verified \in [Gateways -> {"none", "verified", "connected"}]
  /\ session \in [Sockets -> {"closed", "counted", "open", "leaving", "uncounted"}]
  /\ ConnectedIsOpen

Counted == {s \in Sockets : session[s] \in {"counted", "open", "leaving"}}
CountInv == active = Cardinality(Counted)

ClientInv ==
  /\ beat \in {"idle", "metrics", "reporting"}
  /\ worker \in {"waiting", "snapshot", "probing", "syncing"}
  /\ task[Worker].at # "idle" => worker = "syncing"
  /\ \A t \in Tasks : client = t <=> (task[t].at = "calling" \/ (t = Worker /\ worker = "snapshot"))
  /\ client = Heartbeat <=> beat = "reporting"

IInv ==
  /\ TaskShape
  /\ WindowInv /\ WindowExact
  /\ TelemetryInv /\ BatteryKept
  /\ LogInv /\ GatewayInv /\ CountInv /\ ClientInv

-----------------------------------------------------------------------------
(* Tasks and the items in their hands                                      *)

\* The steps with which a task is done with an item.
Done(t) == SkipItem(t) \/ DropDuplicate(t) \/ Upsert(t) \/ UpsertFails(t) \/ Land(t)

LEMMA IngestEffect ==
  ASSUME TaskShape, NEW t \in Tasks, IngestStep(t)
  PROVE  /\ TaskShape'
         /\ \A u \in Tasks \ {t} : task'[u] = task[u]
         /\ Done(t) => task'[t].at \in {"idle", "admit"}
         /\ ~Done(t) => task'[t].items = task[t].items
         /\ Admit(t) => task'[t].at = "read"
         /\ ReadTelemetry(t) =>
              /\ task'[t].at = "store"
              /\ task'[t].meta.values = Overlaid(Item(t).readings, Known(Item(t).mac))
         /\ StoreTelemetry(t) => task'[t].at = "log" /\ task'[t].meta = task[t].meta
         /\ LogEvent(t) => task'[t].at = "upsert" /\ task'[t].meta = task[t].meta
         /\ TakeClient(t) => task'[t].at = "calling" /\ task'[t].meta = task[t].meta
<1>1. /\ DOMAIN AfterItem(t) = {"at", "items", "meta"}
      /\ DOMAIN AfterItem(t).meta = {"values", "stamp"}
      /\ AfterItem(t).at \in {"idle", "admit"}
      /\ DOMAIN NoItems = {"at", "items", "meta"}
      /\ DOMAIN NoItems.meta = {"values", "stamp"}
      /\ NoItems.at = "idle"
  BY DEF AfterItem, NoItems, NoMeta
<1>2. CASE Done(t)
  <2>1. task' = [task EXCEPT ![t] = AfterItem(t)] \/ task' = [task EXCEPT ![t] = NoItems]
    BY <1>2 DEF Done, SkipItem, DropDuplicate, Upsert, UpsertFails, Land
  <2>2. task[t].at \in {"admit", "calling", "adrift"} /\ ~Admit(t)
    BY <1>2 DEF Done, SkipItem, DropDuplicate, Upsert, UpsertFails, Land, Admit
  <2>3. ~ReadTelemetry(t) /\ ~StoreTelemetry(t) /\ ~LogEvent(t) /\ ~TakeClient(t)
    BY <2>2 DEF ReadTelemetry, StoreTelemetry, LogEvent, TakeClient
  <2>. QED BY <1>1, <1>2, <2>1, <2>2, <2>3 DEF TaskShape
<1>3. CASE Admit(t)
  BY <1>3 DEF TaskShape, Done, Land, Admit, SkipItem, DropDuplicate, Upsert, UpsertFails, ReadTelemetry,
              StoreTelemetry, LogEvent, TakeClient
<1>4. CASE ReadTelemetry(t)
  BY <1>4 DEF TaskShape, Done, Land, Admit, SkipItem, DropDuplicate, Upsert, UpsertFails, ReadTelemetry,
              StoreTelemetry, LogEvent, TakeClient
<1>5. CASE StoreTelemetry(t) \/ LogEvent(t) \/ TakeClient(t)
  BY <1>5 DEF TaskShape, Done, Land, Admit, SkipItem, DropDuplicate, Upsert, UpsertFails, ReadTelemetry,
              StoreTelemetry, LogEvent, TakeClient
<1>. QED BY <1>2, <1>3, <1>4, <1>5 DEF IngestStep, Done

LEMMA GivenUp ==
  ASSUME TaskShape, NEW r \in Tasks, GiveUp(r)
  PROVE  /\ TaskShape'
         /\ \A u \in Tasks \ {r} : task'[u] = task[u]
         /\ task'[r].at \in {"idle", "adrift"} /\ task[r].at # "idle"
<1>1. /\ DOMAIN NoItems = {"at", "items", "meta"}
      /\ DOMAIN NoItems.meta = {"values", "stamp"}
      /\ NoItems.at = "idle"
  BY DEF NoItems, NoMeta
<1>2. CASE task[r].at = "calling"
  BY <1>2 DEF TaskShape, GiveUp
<1>3. CASE task[r].at # "calling"
  BY <1>1, <1>3 DEF TaskShape, GiveUp
<1>. QED BY <1>2, <1>3

LEMMA IngestStarts ==
  ASSUME TaskShape, NEW t \in Tasks, NEW m \in Messages, Ingest(t, m)
  PROVE  /\ TaskShape'
         /\ task[t].at = "idle" /\ task'[t].at = "admit"
         /\ \A u \in Tasks \ {t} : task'[u] = task[u]
BY DEF TaskShape, Ingest, NoMeta
-----------------------------------------------------------------------------
(* The packet window                                                       *)

LEMMA OwnSeq ==
  ASSUME NEW S, NEW s \in Seq(S)
  PROVE  IsSeq(s)
<1>. DEFINE T == {s[i] : i \in DOMAIN s}
<1>1. Len(s) \in Nat /\ DOMAIN s = 1..Len(s) /\ s \in [1..Len(s) -> S]
  BY LenProperties
<1>2. s \in [1..Len(s) -> T]
  BY <1>1
<1>3. s \in Seq(T)
  BY <1>1, <1>2, SeqDef
<1>. QED BY <1>3 DEF IsSeq

LEMMA AppendIsSeq ==
  ASSUME NEW s, IsSeq(s), NEW e
  PROVE  /\ IsSeq(Append(s, e))
         /\ Len(s) \in Nat /\ DOMAIN s = 1..Len(s)
         /\ DOMAIN Append(s, e) = 1..(Len(s) + 1)
         /\ Append(s, e)[Len(s) + 1] = e
         /\ \A i \in DOMAIN s : Append(s, e)[i] = s[i]
<1>. DEFINE S == {s[i] : i \in DOMAIN s}
<1>1. s \in Seq(S) /\ s \in Seq(S \cup {e}) /\ Append(s, e) \in Seq(S \cup {e})
  BY DEF IsSeq
<1>2. /\ Len(s) \in Nat /\ DOMAIN s = 1..Len(s)
      /\ DOMAIN Append(s, e) = 1..(Len(s) + 1)
  BY <1>1
<1>3. Append(s, e)[Len(s) + 1] = e /\ \A i \in DOMAIN s : Append(s, e)[i] = s[i]
  BY <1>1
<1>. QED BY <1>1, <1>2, <1>3, OwnSeq

\* What a packet that is let in, or dropped, does to the window.
LEMMA BoundTypes == Window \in Nat /\ LogSize \in Nat
BY BoundAssumption

LEMMA PrunedFacts ==
  ASSUME WindowInv
  PROVE  /\ DOMAIN Pruned \subseteq DOMAIN records
         /\ \A k \in DOMAIN Pruned : Pruned[k] = records[k]
         /\ \A k \in DOMAIN records \ DOMAIN Pruned : now - records[k] >= Window
         /\ \A i \in DOMAIN admitted :
              \/ admitted[i].key \in DOMAIN Pruned /\ admitted[i].at <= records[admitted[i].key]
              \/ now - admitted[i].at >= Window
<1>1. /\ DOMAIN Pruned \subseteq DOMAIN records
      /\ \A k \in DOMAIN Pruned : Pruned[k] = records[k]
  BY DEF Pruned
<1>2. ASSUME NEW k \in DOMAIN records \ DOMAIN Pruned
      PROVE  now - records[k] >= Window
  <2>1. records[k] \in Int /\ now \in Nat /\ ~(now - records[k] < 2 * Window)
    BY <1>2 DEF Pruned, WindowInv
  <2>. QED BY <2>1, BoundTypes
<1>3. ASSUME NEW i \in DOMAIN admitted, admitted[i].key \in DOMAIN records \ DOMAIN Pruned,
             admitted[i].at <= records[admitted[i].key]
      PROVE  now - admitted[i].at >= Window
  <2>1. now - records[admitted[i].key] >= Window
    BY <1>2, <1>3
  <2>2. now \in Int /\ admitted[i].at \in Int /\ records[admitted[i].key] \in Int
    BY <1>3 DEF WindowInv
  <2>. QED BY <1>3, <2>1, <2>2, BoundTypes
<1>. QED BY <1>1, <1>2, <1>3 DEF WindowInv

LEMMA AdmitWindow ==
  ASSUME WindowInv, WindowExact, NEW t \in Tasks, Admit(t)
  PROVE  WindowInv' /\ WindowExact'
<1>. DEFINE key == Item(t).key
            n == Len(admitted) + 1
            new == [key |-> key, at |-> now]
<1>1. /\ admitted' = Append(admitted, new)
      /\ records' = Inserted(Pruned, key, now)
      /\ now' = now /\ dropped' = dropped
      /\ ~InWindow(key)
  BY DEF Admit
<1>2. /\ IsSeq(admitted')
      /\ n \in Nat /\ DOMAIN admitted = 1..(n - 1) /\ DOMAIN admitted' = 1..n
      /\ admitted'[n] = new
      /\ \A i \in DOMAIN admitted : admitted'[i] = admitted[i]
  BY <1>1, AppendIsSeq DEF WindowInv
<1>3. /\ DOMAIN records' = DOMAIN Pruned \cup {key}
      /\ records'[key] = now
      /\ \A k \in DOMAIN Pruned \ {key} : records'[k] = records[k]
  BY <1>1, PrunedFacts DEF Inserted
<1>4. now \in Nat
  BY DEF WindowInv
<1>5. \A i \in DOMAIN admitted' : i = n \/ i \in DOMAIN admitted
  BY <1>2
<1>6. \A i \in DOMAIN admitted : i \in DOMAIN admitted'
  BY <1>2
<1>7. n \in DOMAIN admitted' /\ new.key = key /\ new.at = now
  BY <1>2
<1>8. ASSUME NEW i \in DOMAIN admitted, admitted[i].key = key
      PROVE  now - admitted[i].at >= Window
  <2>1. CASE key \in DOMAIN Pruned /\ admitted[i].at <= records[key]
    <3>1. now - records[key] >= Window
      <4>1. records[key] \in Int /\ ~(now - records[key] < Window)
        BY <1>1, <2>1, PrunedFacts DEF InWindow, WindowInv
      <4>. QED BY <1>4, <4>1, BoundTypes
    <3>2. admitted[i].at \in Int /\ records[key] \in Int
      BY <2>1, PrunedFacts DEF WindowInv
    <3>. QED BY <1>4, <2>1, <3>1, <3>2, BoundTypes
  <2>. QED BY <1>8, <2>1, PrunedFacts
<1>9. \A i \in DOMAIN admitted' : admitted'[i].at \in 0..now
  BY <1>2, <1>4, <1>5, <1>7 DEF WindowInv
<1>10. ASSUME NEW k \in DOMAIN records'
       PROVE  /\ records'[k] \in 0..now
              /\ \E i \in DOMAIN admitted' : admitted'[i].key = k /\ admitted'[i].at = records'[k]
  <2>1. CASE k = key
    BY <1>2, <1>3, <1>4, <1>7, <2>1
  <2>2. CASE k # key
    <3>1. k \in DOMAIN records /\ records'[k] = records[k]
      BY <1>3, <2>2, PrunedFacts
    <3>. QED BY <1>2, <1>6, <3>1 DEF WindowInv
  <2>. QED BY <2>1, <2>2
<1>11. ASSUME NEW i \in DOMAIN admitted'
       PROVE  \/ admitted'[i].key \in DOMAIN records' /\ admitted'[i].at <= records'[admitted'[i].key]
              \/ now - admitted'[i].at >= Window
  <2>1. CASE i = n
    BY <1>2, <1>3, <1>4, <1>7, <2>1
  <2>2. CASE i \in DOMAIN admitted
    BY <1>2, <1>3, <1>8, <2>2, PrunedFacts
  <2>. QED BY <1>5, <2>1, <2>2
<1>12. WindowInv'
  BY <1>1, <1>2, <1>4, <1>9, <1>10, <1>11 DEF WindowInv
<1>13. ASSUME NEW i \in DOMAIN admitted', NEW j \in DOMAIN admitted', i < j,
              admitted'[i].key = admitted'[j].key
       PROVE  admitted'[j].at - admitted'[i].at >= Window
  <2>1. i \in DOMAIN admitted
    BY <1>2, <1>13
  <2>2. CASE j = n
    BY <1>2, <1>7, <1>8, <1>13, <2>1, <2>2
  <2>3. CASE j \in DOMAIN admitted
    BY <1>2, <1>13, <2>1, <2>3 DEF WindowExact
  <2>. QED BY <1>5, <2>2, <2>3
<1>14. \A drop \in dropped' : \E i \in DOMAIN admitted' :
         admitted'[i].key = drop.key /\ drop.at - admitted'[i].at \in 0..(Window - 1)
  BY <1>1, <1>2, <1>6 DEF WindowExact
<1>. QED BY <1>12, <1>13, <1>14 DEF WindowExact

LEMMA DropWindow ==
  ASSUME WindowInv, WindowExact, NEW t \in Tasks, DropDuplicate(t)
  PROVE  WindowInv' /\ WindowExact'
<1>. DEFINE key == Item(t).key
            new == [key |-> key, at |-> now]
<1>1. /\ admitted' = admitted /\ now' = now
      /\ records' = Pruned
      /\ dropped' = dropped \cup {new}
      /\ InWindow(key)
  BY DEF DropDuplicate
<1>2. WindowInv'
  BY <1>1, PrunedFacts DEF WindowInv
<1>3. key \in DOMAIN records /\ now - records[key] < Window
  BY <1>1, PrunedFacts DEF InWindow
<1>4. PICK i \in DOMAIN admitted : admitted[i].key = key /\ admitted[i].at = records[key]
  BY <1>3 DEF WindowInv
<1>5. now \in Nat /\ records[key] \in 0..now
  BY <1>3 DEF WindowInv
<1>6. now - admitted[i].at \in 0..(Window - 1)
  BY <1>3, <1>4, <1>5, BoundTypes
<1>7. new.key = key /\ new.at = now
  OBVIOUS
<1>. QED BY <1>1, <1>2, <1>4, <1>6, <1>7 DEF WindowExact

LEMMA TickWindow ==
  ASSUME WindowInv, WindowExact, Tick
  PROVE  WindowInv' /\ WindowExact'
<1>1. now' = now + 1 /\ UNCHANGED <<admitted, records, dropped>>
  BY DEF Tick
<1>2. \A x \in 0..now : x \in 0..now' /\ x \in Int
  BY <1>1 DEF WindowInv
<1>3. \A x \in 0..now : now - x >= Window => now' - x >= Window
  BY <1>1, BoundTypes DEF WindowInv
<1>4. now' \in Nat
  BY <1>1 DEF WindowInv
<1>. QED BY <1>1, <1>2, <1>3, <1>4 DEF WindowInv, WindowExact

LEMMA NextWindow ==
  ASSUME TaskShape, WindowInv, WindowExact, [Next]_vars
  PROVE  WindowInv' /\ WindowExact'
<1>1. ASSUME NEW t \in Tasks, Admit(t) PROVE WindowInv' /\ WindowExact'
  BY <1>1, AdmitWindow
<1>2. ASSUME NEW t \in Tasks, DropDuplicate(t) PROVE WindowInv' /\ WindowExact'
  BY <1>2, DropWindow
<1>3. CASE Tick
  BY <1>3, TickWindow
<1>4. CASE UNCHANGED <<now, admitted, records, dropped>>
  BY <1>4 DEF WindowInv, WindowExact
<1>. QED BY <1>1, <1>2, <1>3, <1>4
         DEF Next, vars, ingestVars, gatewayVars, workerVars, bounded, IngestStep, SkipItem,
             ReadTelemetry, StoreTelemetry, LogEvent, TakeClient, Upsert, UpsertFails,
             GiveUp, Land, ReceiveRequest, Connect, SessionStep, FlagSession, Uncount, Unflag, ReceiveStatus,
             Disconnect, ReceiveMessage, StartRound, WorkerStep, Snapshot, ProbeFails,
             RecordGateway, SyncGateway, BeginBeat, BeatTakesClient, EndBeat

-----------------------------------------------------------------------------
(* The telemetry                                                           *)

KnownVars == <<telemetry, battery, inventory, raced, unsent>>

LEMMA InHand ==
  \A t \in Tasks :
    /\ Item(t) = Current(task[t]) /\ Item(t).mac = Mac(task[t])
    /\ \A d : (Handling(t, d) <=> Holds(task[t]) /\ Mac(task[t]) = d)
            /\ Known(d) = Values(telemetry, d)
    /\ Sending(t) <=> Sends(task[t])
    /\ Sends(task[t]) => Holds(task[t])
BY DEF Item, Current, Mac, Holds, Sends, Sending, Handling, Known, Values

\* A task that has nothing in its hands before and after.
LEMMA QuietTelemetry ==
  ASSUME TelemetryInv, BatteryKept, UNCHANGED KnownVars, NEW t \in Tasks,
         \A u \in Tasks \ {t} : task'[u] = task[u],
         task[t].at \in {"idle", "admit"}, task'[t].at \in {"idle", "admit", "read"}
  PROVE  TelemetryInv' /\ BatteryKept'
<1>1. ~Holds(task[t]) /\ ~Holds(task'[t]) /\ ~Sends(task[t])
  BY DEF Holds, Sends
<1>2. BatteryKept'
  BY DEF BatteryKept, KnownVars
<1>. QED BY <1>1, <1>2 DEF TelemetryInv, KnownVars

LEMMA ReadTelemetryKeeps ==
  ASSUME TaskShape, TelemetryInv, BatteryKept, NEW t \in Tasks, ReadTelemetry(t)
  PROVE  TelemetryInv' /\ BatteryKept'
<1>. DEFINE mac == Mac(task[t])
<1>1. /\ \A u \in Tasks \ {t} : task'[u] = task[u]
      /\ task'[t].at = "store" /\ Current(task'[t]) = Current(task[t])
      /\ task'[t].meta.values = Overlaid(Current(task[t]).readings, Values(telemetry, mac))
  <2>1. task[t].at = "read"
    BY DEF ReadTelemetry
  <2>2. ~Done(t)
    BY <2>1 DEF Done, SkipItem, DropDuplicate, Upsert, UpsertFails, Land
  <2>. QED BY <2>2, IngestEffect, InHand DEF IngestStep, Current
<1>2. /\ Holds(task'[t]) /\ ~Holds(task[t]) /\ Mac(task'[t]) = mac
      /\ ~Sends(task[t])
  BY <1>1 DEF ReadTelemetry, Holds, Sends, Mac
<1>3. /\ UNCHANGED <<telemetry, battery, inventory, unsent>>
      /\ raced \subseteq raced'
      /\ mac \notin raced' => \A u \in Tasks \ {t} : ~(Holds(task[u]) /\ Mac(task[u]) = mac)
  BY InHand DEF ReadTelemetry
<1>4. BatteryKept'
  BY <1>3 DEF BatteryKept
<1>5. ASSUME NEW u \in Tasks, NEW v \in Tasks, Holds(task'[u]), Holds(task'[v]),
             Mac(task'[u]) = Mac(task'[v]), Mac(task'[u]) \notin raced'
      PROVE  u = v
  BY <1>1, <1>2, <1>3, <1>5 DEF TelemetryInv
<1>6. ASSUME NEW u \in Tasks, Holds(task'[u]), Mac(task'[u]) \notin raced'
      PROVE  /\ task'[u].at = "store" =>
                   task'[u].meta.values = Overlaid(Current(task'[u]).readings,
                                                   Values(telemetry', Mac(task'[u])))
             /\ task'[u].at # "store" => Mac(task'[u]) \in DOMAIN telemetry'
                                          /\ telemetry'[Mac(task'[u])] = task'[u].meta
  BY <1>1, <1>2, <1>3, <1>6 DEF TelemetryInv
<1>7. ASSUME NEW d \in DOMAIN telemetry' \ (raced' \cup unsent')
      PROVE  \/ \E u \in Tasks : Sends(task'[u]) /\ Mac(task'[u]) = d
             \/ d \in DOMAIN inventory' /\ inventory'[d] = telemetry'[d]
  BY <1>1, <1>2, <1>3 DEF TelemetryInv
<1>. QED BY <1>3, <1>4, <1>5, <1>6, <1>7 DEF TelemetryInv

LEMMA StoreTelemetryKeeps ==
  ASSUME TaskShape, TelemetryInv, BatteryKept, NEW t \in Tasks, StoreTelemetry(t)
  PROVE  TelemetryInv' /\ BatteryKept'
<1>. DEFINE mac == Mac(task[t])
            readings == Current(task[t]).readings
<1>1. /\ \A u \in Tasks \ {t} : task'[u] = task[u]
      /\ task'[t].at = "log" /\ Current(task'[t]) = Current(task[t])
      /\ task'[t].meta = task[t].meta
  <2>1. task[t].at = "store"
    BY DEF StoreTelemetry
  <2>2. ~Done(t)
    BY <2>1 DEF Done, SkipItem, DropDuplicate, Upsert, UpsertFails, Land
  <2>. QED BY <2>2, IngestEffect DEF IngestStep, Current
<1>2. /\ UNCHANGED <<inventory, raced, unsent>>
      /\ task[t].at = "store"
      /\ telemetry' = Inserted(telemetry, mac, task[t].meta)
      /\ Battery \in DOMAIN readings => battery' = Inserted(battery, mac, readings[Battery])
      /\ Battery \notin DOMAIN readings => battery' = battery
  BY InHand DEF StoreTelemetry
<1>3. /\ DOMAIN telemetry' = DOMAIN telemetry \cup {mac}
      /\ telemetry'[mac] = task[t].meta
      /\ \A d \in DOMAIN telemetry \ {mac} : telemetry'[d] = telemetry[d]
  BY <1>2 DEF Inserted
<1>4. /\ Holds(task[t]) /\ Holds(task'[t]) /\ Mac(task'[t]) = mac
      /\ ~Sends(task[t]) /\ Sends(task'[t])
  BY <1>1, <1>2 DEF Holds, Sends, Mac
<1>5. \A d : d # mac => Values(telemetry', d) = Values(telemetry, d)
  BY <1>3 DEF Values
<1>6. mac \notin raced => task[t].meta.values = Overlaid(readings, Values(telemetry, mac))
  BY <1>2, <1>4 DEF TelemetryInv
<1>7. ASSUME NEW d \in DOMAIN battery' \ raced'
      PROVE  /\ Battery \in DOMAIN telemetry'[d].values
             /\ telemetry'[d].values[Battery] = battery'[d]
  <2>1. CASE d = mac /\ Battery \in DOMAIN readings
    <3>1. battery'[mac] = readings[Battery]
      BY <1>2, <2>1 DEF Inserted
    <3>. QED BY <1>2, <1>3, <1>6, <1>7, <2>1, <3>1 DEF Overlaid
  <2>2. CASE d = mac /\ Battery \notin DOMAIN readings
    <3>1. /\ d \in DOMAIN battery /\ battery' = battery /\ d \in DOMAIN telemetry
          /\ d \notin raced
      BY <1>2, <1>7, <2>2 DEF TelemetryInv
    <3>2. Values(telemetry, mac) = telemetry[mac].values
      BY <2>2, <3>1 DEF Values
    <3>. QED BY <1>3, <1>6, <2>2, <3>1, <3>2 DEF Overlaid, BatteryKept
  <2>3. CASE d # mac
    <3>1. d \in DOMAIN battery \ raced /\ battery'[d] = battery[d]
      BY <1>2, <1>7, <2>3 DEF Inserted
    <3>2. telemetry'[d] = telemetry[d]
      BY <1>3, <2>3, <3>1 DEF TelemetryInv
    <3>. QED BY <3>1, <3>2 DEF BatteryKept
  <2>. QED BY <2>1, <2>2, <2>3
<1>8. DOMAIN battery' \subseteq DOMAIN telemetry'
  BY <1>2, <1>3 DEF TelemetryInv, Inserted
<1>9. ASSUME NEW u \in Tasks, NEW v \in Tasks, Holds(task'[u]), Holds(task'[v]),
             Mac(task'[u]) = Mac(task'[v]), Mac(task'[u]) \notin raced'
      PROVE  u = v
  BY <1>1, <1>2, <1>4, <1>9 DEF TelemetryInv
<1>10. ASSUME NEW u \in Tasks, Holds(task'[u]), Mac(task'[u]) \notin raced'
       PROVE  /\ task'[u].at = "store" =>
                    task'[u].meta.values = Overlaid(Current(task'[u]).readings,
                                                    Values(telemetry', Mac(task'[u])))
              /\ task'[u].at # "store" => Mac(task'[u]) \in DOMAIN telemetry'
                                           /\ telemetry'[Mac(task'[u])] = task'[u].meta
  <2>1. CASE u = t
    BY <1>1, <1>3, <1>4, <2>1
  <2>2. CASE u # t
    <3>1. task'[u] = task[u] /\ Mac(task[u]) # mac
      BY <1>1, <1>2, <1>4, <1>10, <2>2 DEF TelemetryInv
    <3>. QED BY <1>2, <1>3, <1>5, <1>10, <3>1 DEF TelemetryInv
  <2>. QED BY <2>1, <2>2
<1>11. ASSUME NEW d \in DOMAIN telemetry' \ (raced' \cup unsent')
       PROVE  \/ \E u \in Tasks : Sends(task'[u]) /\ Mac(task'[u]) = d
              \/ d \in DOMAIN inventory' /\ inventory'[d] = telemetry'[d]
  BY <1>1, <1>2, <1>3, <1>4 DEF TelemetryInv
<1>. QED BY <1>7, <1>8, <1>9, <1>10, <1>11 DEF TelemetryInv, BatteryKept

\* The log and the wait for the client.
LEMMA HoldingTelemetry ==
  ASSUME TaskShape, TelemetryInv, BatteryKept, NEW t \in Tasks, LogEvent(t) \/ TakeClient(t)
  PROVE  TelemetryInv' /\ BatteryKept'
<1>1. task[t].at \in {"log", "upsert"} /\ UNCHANGED KnownVars
  BY DEF LogEvent, TakeClient, KnownVars, ingestVars
<1>2. /\ \A u \in Tasks \ {t} : task'[u] = task[u]
      /\ task'[t].at \in {"upsert", "calling"} /\ Current(task'[t]) = Current(task[t])
      /\ task'[t].meta = task[t].meta
  <2>1. ~Done(t)
    BY <1>1 DEF Done, SkipItem, DropDuplicate, Upsert, UpsertFails, Land
  <2>. QED BY <2>1, IngestEffect DEF IngestStep, Current
<1>3. \A u \in Tasks : /\ Holds(task'[u]) <=> Holds(task[u])
                       /\ Sends(task'[u]) <=> Sends(task[u])
                       /\ Current(task'[u]) = Current(task[u])
                       /\ task'[u].meta = task[u].meta
                       /\ task'[u].at = "store" <=> task[u].at = "store"
  BY <1>1, <1>2 DEF Holds, Sends
<1>4. BatteryKept'
  BY <1>1 DEF BatteryKept, KnownVars
<1>5. \A u \in Tasks : Mac(task'[u]) = Mac(task[u])
  BY <1>3 DEF Mac
<1>. QED BY <1>1, <1>3, <1>4, <1>5 DEF TelemetryInv, KnownVars

LEMMA UpsertKeeps ==
  ASSUME TaskShape, TelemetryInv, BatteryKept, NEW t \in Tasks, Upsert(t) \/ UpsertFails(t)
  PROVE  TelemetryInv' /\ BatteryKept'
<1>. DEFINE mac == Mac(task[t])
<1>1. /\ \A u \in Tasks \ {t} : task'[u] = task[u]
      /\ task'[t].at \in {"idle", "admit"}
  BY IngestEffect DEF IngestStep, Done
<1>2. task[t].at = "calling" /\ UNCHANGED <<telemetry, battery, raced>>
  BY DEF Upsert, UpsertFails
<1>3. \/ mac \in unsent'
      \/ mac \in DOMAIN inventory' /\ inventory'[mac] = task[t].meta
  BY InHand DEF Upsert, UpsertFails, Inserted
<1>4. ASSUME NEW d, d # mac
      PROVE  /\ d \in unsent <=> d \in unsent'
             /\ d \in DOMAIN inventory => d \in DOMAIN inventory' /\ inventory'[d] = inventory[d]
  BY <1>4, InHand DEF Upsert, UpsertFails, Inserted
<1>5. Holds(task[t]) /\ ~Holds(task'[t])
  BY <1>1, <1>2 DEF Holds
<1>6. BatteryKept'
  BY <1>2 DEF BatteryKept
<1>7. mac \notin raced => mac \in DOMAIN telemetry /\ telemetry[mac] = task[t].meta
  BY <1>2, <1>5 DEF TelemetryInv
<1>8. ASSUME NEW d \in DOMAIN telemetry' \ (raced' \cup unsent')
      PROVE  \/ \E u \in Tasks : Sends(task'[u]) /\ Mac(task'[u]) = d
             \/ d \in DOMAIN inventory' /\ inventory'[d] = telemetry'[d]
  <2>1. CASE d = mac
    BY <1>2, <1>3, <1>7, <2>1
  <2>2. CASE d # mac
    <3>1. d \in DOMAIN telemetry \ (raced \cup unsent)
      BY <1>2, <1>4, <2>2
    <3>2. CASE \E u \in Tasks : Sends(task[u]) /\ Mac(task[u]) = d
      <4>1. PICK u \in Tasks : Sends(task[u]) /\ Mac(task[u]) = d
        BY <3>2
      <4>. QED BY <1>1, <2>2, <4>1
    <3>3. CASE d \in DOMAIN inventory /\ inventory[d] = telemetry[d]
      BY <1>2, <1>4, <2>2, <3>3
    <3>. QED BY <3>1, <3>2, <3>3 DEF TelemetryInv
  <2>. QED BY <2>1, <2>2
<1>9. \A u \in Tasks : Holds(task'[u]) => task'[u] = task[u]
  BY <1>1, <1>5
<1>. QED BY <1>2, <1>6, <1>8, <1>9 DEF TelemetryInv

\* A request that is dropped, and the call it has left behind.
LEMMA DroppedKeeps ==
  ASSUME TaskShape, TelemetryInv, BatteryKept, NEW t \in Tasks, GiveUp(t) \/ Land(t)
  PROVE  TelemetryInv' /\ BatteryKept'
<1>1. /\ \A u \in Tasks \ {t} : task'[u] = task[u]
      /\ task'[t].at \in {"idle", "adrift"}
  BY GivenUp DEF Land, TaskShape, NoItems
<1>2. ~Holds(task'[t]) /\ UNCHANGED <<telemetry, battery, raced>>
  BY <1>1 DEF GiveUp, Land, Holds
<1>3. /\ unsent \subseteq unsent'
      /\ Sends(task[t]) => Mac(task[t]) \in unsent'
  BY InHand DEF GiveUp, Land, Sends
<1>4. \A d \in DOMAIN inventory \ unsent' : d \in DOMAIN inventory' /\ inventory'[d] = inventory[d]
  BY DEF GiveUp, Land, Inserted
<1>5. BatteryKept'
  BY <1>2 DEF BatteryKept
<1>6. ASSUME NEW d \in DOMAIN telemetry' \ (raced' \cup unsent')
      PROVE  \/ \E u \in Tasks : Sends(task'[u]) /\ Mac(task'[u]) = d
             \/ d \in DOMAIN inventory' /\ inventory'[d] = telemetry'[d]
  <2>1. d \in DOMAIN telemetry \ (raced \cup unsent)
    BY <1>2, <1>3, <1>6
  <2>2. CASE \E u \in Tasks : Sends(task[u]) /\ Mac(task[u]) = d
    <3>1. PICK u \in Tasks : Sends(task[u]) /\ Mac(task[u]) = d
      BY <2>2
    <3>. QED BY <1>1, <1>3, <1>6, <3>1
  <2>3. CASE d \in DOMAIN inventory /\ inventory[d] = telemetry[d]
    BY <1>2, <1>4, <1>6, <2>3
  <2>. QED BY <2>1, <2>2, <2>3 DEF TelemetryInv
<1>7. \A u \in Tasks : Holds(task'[u]) => task'[u] = task[u]
  BY <1>1, <1>2
<1>. QED BY <1>2, <1>5, <1>6, <1>7 DEF TelemetryInv

\* Every other step.
LEMMA IngestStartTelemetry ==
  ASSUME TaskShape, TelemetryInv, BatteryKept, UNCHANGED KnownVars,
         NEW t \in Tasks, NEW m \in Messages, Ingest(t, m)
  PROVE  TelemetryInv' /\ BatteryKept'
BY IngestStarts, QuietTelemetry

LEMMA NextTelemetry ==
  ASSUME TaskShape, TelemetryInv, BatteryKept, [Next]_vars
  PROVE  TelemetryInv' /\ BatteryKept'
<1>1. ASSUME NEW t \in Tasks, IngestStep(t)
      PROVE  TelemetryInv' /\ BatteryKept'
  <2>1. CASE SkipItem(t) \/ DropDuplicate(t) \/ Admit(t)
    <3>1. task[t].at = "admit" /\ UNCHANGED KnownVars
      BY <2>1 DEF SkipItem, DropDuplicate, Admit, KnownVars, ingestVars
    <3>2. task'[t].at \in {"idle", "admit", "read"} /\ \A u \in Tasks \ {t} : task'[u] = task[u]
      BY <1>1, <2>1, IngestEffect DEF Done
    <3>. QED BY <3>1, <3>2, QuietTelemetry
  <2>. QED BY <1>1, <2>1, ReadTelemetryKeeps, StoreTelemetryKeeps, HoldingTelemetry, UpsertKeeps,
             DroppedKeeps
           DEF IngestStep
<1>2. ASSUME NEW t \in Tasks, NEW m \in Messages,
             ReceiveRequest(t, m) \/ ReceiveMessage(t, m) \/ (t = Worker /\ SyncGateway(m))
      PROVE  TelemetryInv' /\ BatteryKept'
  <2>1. Ingest(t, m) /\ UNCHANGED KnownVars
    BY <1>2 DEF ReceiveRequest, ReceiveMessage, SyncGateway, KnownVars, ingestVars
  <2>. QED BY <2>1, IngestStartTelemetry
<1>3. CASE UNCHANGED <<KnownVars, task>>
  BY <1>3 DEF TelemetryInv, BatteryKept, KnownVars
<1>4. Sockets \subseteq Tasks /\ Requests \subseteq Tasks /\ Worker \in Tasks
  BY DEF Tasks
<1>. QED BY <1>1, <1>2, <1>3, <1>4, DroppedKeeps
         DEF Next, vars, KnownVars, ingestVars, gatewayVars, workerVars, bounded, Tick,
             Connect, SessionStep, FlagSession, Uncount, Unflag, ReceiveStatus, Disconnect,
             StartRound, WorkerStep, Snapshot, ProbeFails, RecordGateway, BeginBeat,
             BeatTakesClient, EndBeat

-----------------------------------------------------------------------------
(* Log, sessions and client                                                *)

LEMMA LoggedIsSeq ==
  ASSUME LogInv, NEW event
  PROVE  IsSeq(Logged(event)) /\ Len(Logged(event)) <= LogSize
<1>. DEFINE S == {events[i] : i \in DOMAIN events} \cup {event}
            longer == <<event>> \o events
            n == IF Len(events) < LogSize THEN Len(events) + 1 ELSE LogSize
<1>1. events \in Seq(S) /\ <<event>> \in Seq(S) /\ Len(<<event>>) = 1
  BY DEF LogInv, IsSeq
<1>2. Len(events) \in Nat /\ longer \in Seq(S) /\ Len(longer) = Len(events) + 1
  BY <1>1, ConcatProperties, LenProperties
<1>3. n \in Nat /\ n <= LogSize /\ n <= Len(longer)
  BY <1>2, BoundTypes DEF LogInv
<1>4. SubSeq(longer, 1, n) \in Seq(S) /\ Len(SubSeq(longer, 1, n)) = n
  BY <1>2, <1>3
<1>. QED BY <1>3, <1>4, OwnSeq DEF Logged

LEMMA NextLog ==
  ASSUME LogInv, [Next]_vars
  PROVE  LogInv'
<1>1. ASSUME NEW t \in Tasks, LogEvent(t) PROVE LogInv'
  <2>1. events' = events \/ \E event : events' = Logged(event)
    BY <1>1 DEF LogEvent
  <2>. QED BY <2>1, LoggedIsSeq DEF LogInv
<1>2. CASE UNCHANGED events
  BY <1>2 DEF LogInv
<1>. QED BY <1>1, <1>2
         DEF Next, vars, ingestVars, gatewayVars, workerVars, bounded, Tick, IngestStep, SkipItem,
             DropDuplicate, Admit, ReadTelemetry, StoreTelemetry, TakeClient, Upsert, UpsertFails,
             GiveUp, Land, ReceiveRequest, Connect, SessionStep, FlagSession, Uncount, Unflag, ReceiveStatus,
             Disconnect, ReceiveMessage, StartRound, WorkerStep, Snapshot, ProbeFails,
             RecordGateway, SyncGateway, BeginBeat, BeatTakesClient, EndBeat

LEMMA FlaggedFacts ==
  ASSUME GatewayInv, NEW g \in Gateways
  PROVE  /\ Flagged(g) \in [Gateways -> {"none", "verified", "connected"}]
         /\ \A h \in Gateways : Flagged(g)[h] = "connected" => h = g \/ verified[h] = "connected"
BY DEF GatewayInv, Flagged

LEMMA NextGateways ==
  ASSUME GatewayInv, [Next]_vars
  PROVE  GatewayInv'
<1>1. ASSUME NEW s \in Sockets, FlagSession(s)
      PROVE  GatewayInv'
  <2>1. peer[s] \in Gateways /\ verified' = Flagged(peer[s]) /\ peer' = peer
    BY <1>1 DEF FlagSession, GatewayInv
  <2>2. session' = [session EXCEPT ![s] = "open"] /\ session[s] = "counted"
    BY <1>1 DEF FlagSession
  <2>3. /\ session' \in [Sockets -> {"closed", "counted", "open", "leaving", "uncounted"}]
        /\ session'[s] = "open"
        /\ \A r \in Sockets \ {s} : session'[r] = session[r]
    BY <2>2 DEF GatewayInv
  <2>4. ConnectedIsOpen'
    BY <2>1, <2>2, <2>3, FlaggedFacts DEF ConnectedIsOpen, GatewayInv
  <2>. QED BY <2>1, <2>3, <2>4, FlaggedFacts DEF GatewayInv
<1>2. ASSUME NEW s \in Sockets, session[s] = "open", UNCHANGED <<session, peer>>,
             verified' \in {verified, Flagged(peer[s])}
      PROVE  GatewayInv'
  <2>1. peer[s] \in Gateways
    BY DEF GatewayInv
  <2>. QED BY <1>2, <2>1, FlaggedFacts DEF GatewayInv, ConnectedIsOpen
<1>3. ASSUME NEW s \in Sockets, Connect(s) \/ Disconnect(s) \/ Uncount(s)
      PROVE  GatewayInv'
  <2>1. UNCHANGED <<verified, peer>>
    BY <1>3 DEF Connect, Disconnect, Uncount
  <2>2. /\ session' \in [Sockets -> {"closed", "counted", "open", "leaving", "uncounted"}]
        /\ \A r \in Sockets : session[r] \in {"open", "leaving", "uncounted"} =>
                              session'[r] \in {"open", "leaving", "uncounted"}
    BY <1>3 DEF Connect, Disconnect, Uncount, GatewayInv
  <2>. QED BY <2>1, <2>2 DEF GatewayInv, ConnectedIsOpen
<1>4. ASSUME NEW s \in Sockets, Unflag(s)
      PROVE  GatewayInv'
  <2>1. /\ peer' = peer /\ peer[s] \in Gateways
        /\ session' = [session EXCEPT ![s] = "closed"]
        /\ verified' = IF verified[peer[s]] = "connected"
                       THEN [verified EXCEPT ![peer[s]] = "verified"] ELSE verified
    BY <1>4 DEF Unflag, GatewayInv
  <2>2. /\ session' \in [Sockets -> {"closed", "counted", "open", "leaving", "uncounted"}]
        /\ \A r \in Sockets \ {s} : session'[r] = session[r]
        /\ verified' \in [Gateways -> {"none", "verified", "connected"}]
        /\ verified'[peer[s]] # "connected"
        /\ \A g \in Gateways : verified'[g] = "connected" => verified[g] = "connected"
    BY <2>1 DEF GatewayInv
  <2>. QED BY <2>1, <2>2 DEF GatewayInv, ConnectedIsOpen
<1>5. ASSUME NEW g \in Gateways, ProbeFails(g) \/ RecordGateway(g)
      PROVE  GatewayInv'
  <2>1. UNCHANGED <<session, peer>>
    BY <1>5 DEF ProbeFails, RecordGateway
  <2>2. /\ verified' \in [Gateways -> {"none", "verified", "connected"}]
        /\ \A h \in Gateways : verified'[h] = "connected" => verified[h] = "connected"
    BY <1>5 DEF ProbeFails, RecordGateway, GatewayInv
  <2>. QED BY <2>1, <2>2 DEF GatewayInv, ConnectedIsOpen
<1>6. CASE UNCHANGED <<verified, session, peer>>
  BY <1>6 DEF GatewayInv, ConnectedIsOpen
<1>7. ASSUME NEW s \in Sockets, NEW m \in Messages, ReceiveMessage(s, m)
      PROVE  GatewayInv'
  BY <1>2, <1>7 DEF ReceiveMessage
<1>8. ASSUME NEW s \in Sockets, ReceiveStatus(s)
      PROVE  GatewayInv'
  BY <1>2, <1>8 DEF ReceiveStatus
<1>. QED BY <1>1, <1>3, <1>4, <1>5, <1>6, <1>7, <1>8
         DEF Next, vars, ingestVars, gatewayVars, workerVars, bounded, Tick, IngestStep, SkipItem,
             DropDuplicate, Admit, ReadTelemetry, StoreTelemetry, LogEvent, TakeClient, Upsert,
             UpsertFails, GiveUp, Land, ReceiveRequest, SessionStep, StartRound, WorkerStep, Snapshot,
             SyncGateway, BeginBeat, BeatTakesClient, EndBeat

LEMMA NextCount ==
  ASSUME GatewayInv, CountInv, [Next]_vars
  PROVE  CountInv'
<1>1. IsFiniteSet(Counted) /\ Cardinality(Counted) \in Nat
  BY TaskAssumption, FS_Subset, FS_CardinalityType DEF Counted
<1>2. ASSUME NEW s \in Sockets, Connect(s)
      PROVE  CountInv'
  <2>1. Counted' = Counted \cup {s} /\ s \notin Counted /\ active' = active + 1
    BY <1>2 DEF Connect, Counted, GatewayInv
  <2>2. Cardinality(Counted') = Cardinality(Counted) + 1
    BY <1>1, <2>1, FS_AddElement
  <2>. QED BY <2>1, <2>2 DEF CountInv
<1>3. ASSUME NEW s \in Sockets, Uncount(s)
      PROVE  CountInv'
  <2>1. Counted' = Counted \ {s} /\ s \in Counted
    BY <1>3 DEF Uncount, Counted, GatewayInv
  <2>2. Cardinality(Counted') = Cardinality(Counted) - 1 /\ Cardinality(Counted') \in Nat
    BY <1>1, <2>1, FS_RemoveElement, FS_CardinalityType
  <2>3. active > 0 /\ active' = active - 1
    BY <1>1, <1>3, <2>2 DEF Uncount, CountInv
  <2>. QED BY <2>2, <2>3 DEF CountInv
<1>4. ASSUME NEW s \in Sockets, FlagSession(s) \/ Disconnect(s) \/ Unflag(s)
      PROVE  CountInv'
  <2>1. active' = active /\ Counted' = Counted
    BY <1>4 DEF FlagSession, Disconnect, Unflag, Counted, GatewayInv
  <2>. QED BY <2>1 DEF CountInv
<1>5. CASE UNCHANGED <<active, session>>
  BY <1>5 DEF CountInv, Counted
<1>. QED BY <1>2, <1>3, <1>4, <1>5
         DEF Next, vars, ingestVars, gatewayVars, workerVars, bounded, Tick, IngestStep, SkipItem,
             DropDuplicate, Admit, ReadTelemetry, StoreTelemetry, LogEvent, TakeClient, Upsert,
             UpsertFails, GiveUp, Land, ReceiveRequest, SessionStep, ReceiveStatus,
             ReceiveMessage, StartRound,
             WorkerStep, Snapshot, ProbeFails, RecordGateway, SyncGateway, BeginBeat,
             BeatTakesClient, EndBeat

LEMMA NextClient ==
  ASSUME TaskShape, ClientInv, [Next]_vars
  PROVE  ClientInv'
<1>1. /\ Worker \in Tasks /\ Sockets \subseteq Tasks \ {Worker}
      /\ Requests \subseteq Tasks \ {Worker}
      /\ Nobody \notin Tasks /\ Heartbeat \notin Tasks /\ Nobody # Heartbeat
  BY TaskAssumption DEF Tasks
<1>2. ASSUME NEW t \in Tasks, IngestStep(t)
      PROVE  ClientInv'
  <2>1. UNCHANGED <<beat, worker>> /\ task[t].at # "idle"
    BY <1>2 DEF IngestStep, SkipItem, DropDuplicate, Admit, ReadTelemetry, StoreTelemetry,
                LogEvent, TakeClient, Upsert, UpsertFails, Land, workerVars
  <2>2. \A u \in Tasks \ {t} : task'[u] = task[u]
    BY <1>2, IngestEffect
  <2>3. task'[Worker].at # "idle" => worker' = "syncing"
    BY <1>1, <2>1, <2>2 DEF ClientInv
  <2>4. CASE Upsert(t) \/ UpsertFails(t)
    <3>1. client = t /\ client' = Nobody /\ task'[t].at # "calling"
      BY <1>2, <2>4, IngestEffect DEF Done, Upsert, UpsertFails, ClientInv
    <3>2. worker # "snapshot"
      BY <1>1, <2>1, <3>1 DEF ClientInv
    <3>. QED BY <1>1, <2>1, <2>2, <2>3, <3>1, <3>2 DEF ClientInv
  <2>5. CASE TakeClient(t)
    <3>1. client = Nobody /\ client' = t /\ task'[t].at = "calling"
      BY <1>2, <2>5, IngestEffect DEF TakeClient
    <3>. QED BY <1>1, <2>1, <2>2, <2>3, <3>1 DEF ClientInv
  <2>6. CASE ~(Upsert(t) \/ UpsertFails(t) \/ TakeClient(t))
    <3>1. client' = client /\ task[t].at # "calling" /\ task'[t].at # "calling"
      BY <1>2, <2>6, IngestEffect
         DEF IngestStep, Done, Land, SkipItem, DropDuplicate, Admit, ReadTelemetry, StoreTelemetry, LogEvent
    <3>. QED BY <1>1, <2>1, <2>2, <2>3, <3>1 DEF ClientInv
  <2>. QED BY <2>4, <2>5, <2>6
<1>3. ASSUME NEW t \in Tasks, NEW m \in Messages,
             \/ t # Worker /\ (ReceiveRequest(t, m) \/ ReceiveMessage(t, m))
             \/ t = Worker /\ SyncGateway(m)
      PROVE  ClientInv'
  <2>1. Ingest(t, m) /\ UNCHANGED <<beat, client>>
    BY <1>3 DEF ReceiveRequest, ReceiveMessage, SyncGateway
  <2>2. /\ task[t].at = "idle" /\ task'[t].at = "admit"
        /\ \A u \in Tasks \ {t} : task'[u] = task[u]
    BY <2>1, IngestStarts
  <2>3. \/ t # Worker /\ worker' = worker
        \/ t = Worker /\ worker = "probing" /\ worker' = "syncing"
    BY <1>3 DEF ReceiveRequest, ReceiveMessage, SyncGateway, workerVars
  <2>. QED BY <1>1, <2>1, <2>2, <2>3 DEF ClientInv
<1>4. CASE StartRound
  BY <1>1, <1>4 DEF StartRound, ClientInv
<1>5. ASSUME NEW found, Snapshot(found)
      PROVE  ClientInv'
  <2>1. client = Worker /\ client' = Nobody
    BY <1>1, <1>5 DEF Snapshot, ClientInv
  <2>2. worker' \in {"waiting", "probing"} /\ task[Worker].at = "idle"
        /\ UNCHANGED <<task, beat>>
    BY <1>5 DEF Snapshot, ClientInv
  <2>. QED BY <1>1, <2>1, <2>2 DEF ClientInv
<1>6. ASSUME NEW g, ProbeFails(g) \/ RecordGateway(g)
      PROVE  ClientInv'
  <2>1. /\ worker \in {"probing", "syncing"} /\ worker' \in {"waiting", "probing"}
        /\ task[Worker].at = "idle" /\ UNCHANGED <<task, beat, client>>
    BY <1>6 DEF ProbeFails, RecordGateway, NextGateway, ClientInv
  <2>. QED BY <2>1 DEF ClientInv
<1>7. CASE BeginBeat
  BY <1>7 DEF BeginBeat, ClientInv, workerVars
<1>8. CASE BeatTakesClient \/ EndBeat
  BY <1>1, <1>8 DEF BeatTakesClient, EndBeat, ClientInv, workerVars
<1>9. CASE UNCHANGED <<task, beat, client, worker>>
  BY <1>9 DEF ClientInv
<1>10. ASSUME NEW r \in Requests, GiveUp(r)
       PROVE  ClientInv'
  <2>1. /\ UNCHANGED <<beat, worker>>
        /\ \A u \in Tasks \ {r} : task'[u] = task[u]
        /\ task'[r].at \in {"idle", "adrift"}
    BY <1>1, <1>10, GivenUp DEF GiveUp, workerVars
  <2>2. CASE task[r].at = "calling"
    <3>1. client = r /\ client' = Nobody
      BY <1>1, <1>10, <2>2 DEF GiveUp, ClientInv
    <3>. QED BY <1>1, <2>1, <3>1 DEF ClientInv
  <2>3. CASE task[r].at # "calling"
    <3>1. client' = client
      BY <1>10, <2>3 DEF GiveUp
    <3>. QED BY <1>1, <2>1, <2>3, <3>1 DEF ClientInv
  <2>. QED BY <2>2, <2>3
<1>. QED BY <1>1, <1>2, <1>3, <1>4, <1>5, <1>6, <1>7, <1>8, <1>9, <1>10
         DEF Next, vars, ingestVars, gatewayVars, workerVars, bounded, Tick, Connect, SessionStep,
             FlagSession, Uncount, Unflag, ReceiveStatus, Disconnect, WorkerStep

-----------------------------------------------------------------------------
LEMMA InitIInv == Init => IInv
<1>. SUFFICES ASSUME Init PROVE IInv
  OBVIOUS
<1>1. IsSeq(<<>>) /\ DOMAIN <<>> = {} /\ Len(<<>>) = 0
  <2>1. <<>> \in Seq({}) /\ Len(<<>>) = 0
    BY EmptySeq
  <2>2. DOMAIN <<>> = 1..0
    BY <2>1, LenProperties
  <2>3. IsSeq(<<>>)
    BY <2>1, OwnSeq
  <2>4. 1..0 = {}
    OBVIOUS
  <2>. QED BY ONLY <2>1, <2>2, <2>3, <2>4
<1>2. TaskShape /\ \A t \in Tasks : task[t].at = "idle"
  BY DEF Init, NoItems, NoMeta, TaskShape
<1>3. WindowInv /\ WindowExact
  BY <1>1 DEF Init, WindowInv, WindowExact
<1>4. TelemetryInv /\ BatteryKept
  BY <1>1, <1>2 DEF Init, TelemetryInv, BatteryKept, Holds
<1>5. LogInv /\ GatewayInv
  BY <1>1, BoundTypes DEF Init, LogInv, GatewayInv, ConnectedIsOpen
<1>6. CountInv
  <2>1. Counted = {}
    BY DEF Init, Counted
  <2>. QED BY <2>1, FS_EmptySet DEF Init, CountInv
<1>7. ClientInv
  BY <1>2, TaskAssumption DEF Init, ClientInv, Tasks
<1>. QED BY <1>2, <1>3, <1>4, <1>5, <1>6, <1>7 DEF IInv

LEMMA NextShape ==
  ASSUME TaskShape, [Next]_vars
  PROVE  TaskShape'
<1>1. ASSUME NEW t \in Tasks, IngestStep(t) PROVE TaskShape'
  BY <1>1, IngestEffect
<1>2. ASSUME NEW t \in Tasks, NEW m \in Messages,
             ReceiveRequest(t, m) \/ ReceiveMessage(t, m) \/ (t = Worker /\ SyncGateway(m))
      PROVE  TaskShape'
  BY <1>2, IngestStarts DEF ReceiveRequest, ReceiveMessage, SyncGateway
<1>3. CASE UNCHANGED task
  BY <1>3 DEF TaskShape
<1>4. Sockets \subseteq Tasks /\ Requests \subseteq Tasks /\ Worker \in Tasks
  BY DEF Tasks
<1>. QED BY <1>1, <1>2, <1>3, <1>4, GivenUp
         DEF Next, vars, ingestVars, gatewayVars, workerVars, bounded, Tick, Connect, SessionStep,
             FlagSession, Uncount, Unflag, ReceiveStatus, Disconnect, StartRound, WorkerStep,
             Snapshot, ProbeFails, RecordGateway, BeginBeat, BeatTakesClient, EndBeat

\* The invariant of the module: shapes, window, telemetry, log, sessions, client.
THEOREM BTHomeInvariant == Spec => []IInv
<1>1. IInv /\ [Next]_vars => IInv'
  BY NextShape, NextWindow, NextTelemetry, NextLog, NextGateways, NextCount, NextClient DEF IInv
<1>. QED BY <1>1, InitIInv, PTL DEF Spec

\* One packet of a key per window gets through, and a duplicate follows one that
\* was let in by less than a window, whatever is pruned in between.
THEOREM WindowIsExact == Spec => []WindowExact
<1>1. IInv => WindowExact
  BY DEF IInv
<1>. QED BY <1>1, BTHomeInvariant, PTL

\* The battery of a device survives the packets that do not report one, unless
\* two packets of the device are handled at once.
THEOREM BatteryIsKept == Spec => []BatteryKept
<1>1. IInv => BatteryKept
  BY DEF IInv
<1>. QED BY <1>1, BTHomeInvariant, PTL

\* What the supervisor lists of a device is what the module knows, as soon as no
\* task has the device in hand.
THEOREM SupervisorIsCurrent == Spec => []SupervisorCurrent
<1>1. IInv => SupervisorCurrent
  <2>. SUFFICES ASSUME IInv, NEW d \in DOMAIN telemetry, d \notin raced \cup unsent
                PROVE  (\E t \in Tasks : Sending(t) /\ Item(t).mac = d) \/ inventory[d] = telemetry[d]
    BY DEF SupervisorCurrent
  <2>. QED BY InHand DEF IInv, TelemetryInv
<1>. QED BY <1>1, BTHomeInvariant, PTL

\* Counter, flags, log and client are right for any number of connections.
THEOREM SessionsAreRight == Spec => []SessionsRight
<1>1. IInv => SessionsRight
  BY DEF IInv, SessionsRight, TypeOK, WindowInv, LogInv, GatewayInv, CountInv, Counted, ClientInv
<1>. QED BY <1>1, BTHomeInvariant, PTL
=============================================================================
