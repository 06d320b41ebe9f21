----------------------------- MODULE DeviceBook -----------------------------
(***************************************************************************)
(* Links between device ids, BLE devices reported by phones, and the list  *)
(* of ignored devices: the requests of modules/web/src/main.rs that change *)
(* them, and the module's device records in the supervisor.                *)
(*                                                                         *)
(* mobile_ble_store is a lock held while its file is written, and by a     *)
(* forget until the supervisor has answered.  links_store is copied, then  *)
(* overwritten as a whole by requests that link devices on their own.      *)
(*                                                                         *)
(* A request whose client goes away ends at the await where it is; what it *)
(* has asked the supervisor may arrive later ("adrift").                   *)
(***************************************************************************)
EXTENDS WebRequests, Sequences

CONSTANTS
  Items,     \* ids as phones report them
  Norm,      \* normalize_identifier of an item: its device
  Net,       \* records of network devices in the snapshot, in its order
  HostOf,    \* the network device whose MAC a BLE device's name ends in
  NoHost     \* no such device

Ble == {Norm[i] : i \in Items}
NetDevs == {Net[i].id : i \in DOMAIN Net}
Devs == Ble \cup NetDevs

ASSUME DeviceAssumption ==
  /\ DOMAIN Norm = Items /\ DOMAIN HostOf = Ble
  /\ Ble \cap NetDevs = {} /\ NoHost \notin Devs
  /\ \A b \in Ble : HostOf[b] \in NetDevs \cup {NoHost}
  /\ Len(Net) \in Nat /\ DOMAIN Net = 1..Len(Net)

VARIABLES
  mobile,      \* items in mobile_ble_store
  mobileFile,
  listed,      \* BLE devices the supervisor lists for this module
  links,       \* <<primary, linked>>
  linksFile,
  ignored,     \* devices in ignored_store
  ignoredFile,
  kept,        \* links made by hand while no copy of the links was in use
  forgotten,   \* devices forgotten while no call that lists them was under way
  missed,      \* devices of the last calls of the supervisor that failed, were
               \* dropped, or came late
  crossed      \* the ignore list was changed while it was being saved

deviceVars == <<mobile, mobileFile, listed, links, linksFile, ignored, ignoredFile,
                kept, forgotten, missed, crossed>>
mobileVars == <<mobile, mobileFile, listed, forgotten, missed>>
linkVars == <<links, linksFile, kept>>
ignoreVars == <<ignored, ignoredFile, crossed>>

DevsOf(items) == {Norm[i] : i \in items}

\* A request with its items, and its copies of links and of devices.
DeviceCall(op, pc, items) ==
  [op |-> op, pc |-> pc, items |-> items, copy |-> {}, devs |-> {}]

DeviceInit(files) ==
  /\ mobile = files.mobile /\ mobileFile = files.mobile
  /\ listed = DevsOf(files.mobile)
  /\ links = files.links /\ linksFile = files.links
  /\ ignored = files.ignored /\ ignoredFile = files.ignored
  /\ kept = files.links /\ forgotten = {} /\ missed = {} /\ crossed = FALSE

-----------------------------------------------------------------------------
(* Links                                                                   *)

\* auto_link_deterministic_devices: every BLE device of the snapshot that is
\* linked to nothing goes to the network device its name points at.
AutoLinked(snapshot, copy) ==
  copy \cup {<<HostOf[b], b>> : b \in {b \in snapshot :
                 HostOf[b] # NoHost /\ \A l \in copy : l[2] # b}}

Copies == Under({"page", "ingest"}, {"snapshot", "write_back"})
                \* requests that have copied the links and may put them back

\* link_devices_handler: the network device is the primary one.
Oriented(p, s) == IF p \in Ble /\ s \notin Ble THEN <<s, p>> ELSE <<p, s>>

\* Mutant: the list of the primary device is replaced.
Link_Only(p, s) ==
  /\ LET l == Oriented(p, s) IN
       /\ links' = {m \in links : m[1] # l[1]} \cup {l}
       /\ kept' = IF Copies = {} THEN kept \cup {l} ELSE kept
  /\ linksFile' = links'
  /\ Brief
  /\ UNCHANGED <<mobileVars, ignoreVars>>

Link(p, s) ==
  /\ LET l == Oriented(p, s) IN
       /\ links' = links \cup {l}
       /\ kept' = IF Copies = {} THEN kept \cup {l} ELSE kept
  /\ linksFile' = links'
  /\ Brief
  /\ UNCHANGED <<mobileVars, ignoreVars>>

\* unlink_devices_handler: in both directions.
Unlink(p, s) ==
  /\ links' = links \ {<<p, s>>, <<s, p>>}
  /\ kept' = kept \ {<<p, s>>, <<s, p>>}
  /\ linksFile' = links'
  /\ Brief
  /\ UNCHANGED <<mobileVars, ignoreVars>>

\* devices_handler: the links are copied before the gateways and the snapshot
\* are awaited; without the snapshot nothing is linked.
Page(c) ==
  /\ Begin(c, [DeviceCall("page", "snapshot", {}) EXCEPT !.copy = links])
  /\ UNCHANGED deviceVars

PageSnapshot(c, read) ==
  /\ calls[c].op = "page" /\ calls[c].pc = "snapshot"
  /\ LET new == AutoLinked(listed, calls[c].copy) IN
       IF ~read \/ new = calls[c].copy THEN Return(c)
         ELSE Continue(c, [calls[c] EXCEPT !.pc = "write_back", !.copy = new])
  /\ UNCHANGED deviceVars

WriteBack(c) ==
  /\ calls[c].pc = "write_back"
  /\ links' = calls[c].copy
  /\ linksFile' = links'
  /\ Return(c)
  /\ UNCHANGED <<mobileVars, ignoreVars, kept>>

-----------------------------------------------------------------------------
(* BLE devices of phones                                                   *)

\* The request that holds the lock of mobile_ble_store over an await.
MobileHeld == Under({"forget"}, {"replace"}) # {}

\* v1_mobile_ble_ingest_handler: what is ignored is skipped, ...
Ingest(c, items) ==
  /\ LET valid == {i \in items : Norm[i] \notin ignored} IN
       IF valid = {} THEN Brief
         ELSE Begin(c, DeviceCall("ingest", "store", valid))
  /\ UNCHANGED deviceVars

\* ... the rest is stored, the file written, ...
IngestStore(c) ==
  /\ calls[c].pc = "store"
  /\ ~MobileHeld
  /\ mobile' = mobile \cup calls[c].items
  /\ mobileFile' = mobile'
  /\ forgotten' = forgotten \ DevsOf(calls[c].items)
  /\ Goto(c, "upsert")
  /\ UNCHANGED <<listed, missed, linkVars, ignoreVars>>

\* ... and, with the lock let go, sent to the supervisor.
IngestUpsert(c) ==
  /\ calls[c].op = "ingest" /\ calls[c].pc = "upsert"
  /\ listed' = listed \cup DevsOf(calls[c].items)
  /\ missed' = missed \ DevsOf(calls[c].items)
  /\ Goto(c, "reread")
  /\ UNCHANGED <<mobile, mobileFile, forgotten, linkVars, ignoreVars>>

\* Without a connection the request ends; a refused upsert does not end it.
IngestUpsertFails(c) ==
  /\ calls[c].op = "ingest" /\ calls[c].pc = "upsert"
  /\ missed' = missed \cup DevsOf(calls[c].items)
  /\ Fail(c, Idle) \/ Fail(c, [calls[c] EXCEPT !.pc = "reread"])
  /\ UNCHANGED <<mobile, mobileFile, listed, forgotten, linkVars, ignoreVars>>

\* The snapshot is awaited first, then the links are copied; they are written
\* back under another lock.
IngestSnapshot(c, read) ==
  /\ calls[c].pc = "reread"
  /\ IF ~read THEN Return(c) ELSE
     Continue(c, [calls[c] EXCEPT !.pc = "relink", !.devs = listed])
  /\ UNCHANGED deviceVars

IngestLinks(c) ==
  /\ calls[c].pc = "relink"
  /\ LET new == AutoLinked(calls[c].devs, links) IN
       IF new = links THEN Return(c)
         ELSE Continue(c, [calls[c] EXCEPT !.pc = "write_back", !.copy = new])
  /\ UNCHANGED deviceVars

\* Mutant: items are compared with the id as it was given.
Forget_Raw(c, d) ==
  /\ ~MobileHeld
  /\ mobile' = {i \in mobile : i # d}
  /\ mobileFile' = mobile'
  /\ Begin(c, [DeviceCall("forget", "replace", {i \in Items : Norm[i] = d})
                 EXCEPT !.devs = DevsOf(mobile')])
  /\ UNCHANGED <<listed, forgotten, missed, linkVars, ignoreVars>>

\* forget_device_handler of a BLE device: the others replace, in the
\* supervisor, all that the module had there.
Forget(c, d) ==
  /\ ~MobileHeld
  /\ mobile' = {i \in mobile : Norm[i] # d}
  /\ mobileFile' = mobile'
  /\ Begin(c, [DeviceCall("forget", "replace", {i \in Items : Norm[i] = d})
                 EXCEPT !.devs = DevsOf(mobile')])
  /\ UNCHANGED <<listed, forgotten, missed, linkVars, ignoreVars>>

\* Devices that an ingest has stored and not heard of since.
Sent == UNION {DevsOf(calls[c].items) : c \in Under({"ingest"}, {"upsert", "adrift"})}

ForgetReplace(c) ==
  /\ calls[c].op = "forget" /\ calls[c].pc = "replace"
  /\ listed' = calls[c].devs
  /\ forgotten' = forgotten \cup
       (DevsOf(calls[c].items)
          \ (Sent \cup UNION {calls[o].devs : o \in Under({"forget"}, {"adrift"})}))
  /\ missed' = {}
  /\ Return(c)
  /\ UNCHANGED <<mobile, mobileFile, linkVars, ignoreVars>>

\* The answer is ignored: the device is listed, though stored no longer.
ForgetReplaceFails(c) ==
  /\ calls[c].op = "forget" /\ calls[c].pc = "replace"
  /\ missed' = missed \cup DevsOf(calls[c].items)
  /\ Fail(c, Idle)
  /\ UNCHANGED <<mobile, mobileFile, listed, forgotten, linkVars, ignoreVars>>

-----------------------------------------------------------------------------
(* Requests that are dropped                                               *)

\* axum drops the handler at its await: nothing happens to the stores, but the
\* lock is free, and a call may be on its way.
GiveUpDevices(c) ==
  /\ calls[c].op \in {"page", "ingest", "forget"} /\ calls[c].pc # "adrift"
  /\ IF calls[c].pc \in {"upsert", "replace"}
       THEN /\ missed' = missed \cup DevsOf(calls[c].items)
            /\ Fail(c, [calls[c] EXCEPT !.pc = "adrift"])
       ELSE Fail(c, Idle) /\ UNCHANGED missed
  /\ UNCHANGED <<mobile, mobileFile, listed, forgotten, linkVars, ignoreVars>>

\* The call is lost, ...
Sink(c) ==
  /\ calls[c].pc = "adrift" /\ calls[c].op \in {"ingest", "forget"}
  /\ Return(c)
  /\ UNCHANGED deviceVars

\* ... or arrives; a replacement undoes what others have listed since.
LandUpsert(c) ==
  /\ calls[c].op = "ingest" /\ calls[c].pc = "adrift"
  /\ listed' = listed \cup DevsOf(calls[c].items)
  /\ missed' = missed \ DevsOf(calls[c].items)
  /\ Return(c)
  /\ UNCHANGED <<mobile, mobileFile, forgotten, linkVars, ignoreVars>>

LandReplace(c) ==
  /\ calls[c].op = "forget" /\ calls[c].pc = "adrift"
  /\ listed' = calls[c].devs
  /\ missed' = missed \cup (DevsOf(mobile) \ calls[c].devs)
  /\ Return(c)
  /\ UNCHANGED <<mobile, mobileFile, forgotten, linkVars, ignoreVars>>

-----------------------------------------------------------------------------
(* IgnoredDevicesStore                                                     *)

IgnoreSaving == Under({"ignore"}, {"ilist", "iwrite"})

SetIgnored(c, after) ==
  /\ ignored' = after
  /\ crossed' = (IgnoreSaving # {})
  /\ Begin(c, DeviceCall("ignore", "ilist", {}))
  /\ UNCHANGED <<ignoredFile, mobileVars, linkVars>>

Ignore(c, d) == SetIgnored(c, ignored \cup {d})
Unignore(c, d) == d \in ignored /\ SetIgnored(c, ignored \ {d})

ListIgnored(c) ==
  /\ calls[c].pc = "ilist"
  /\ Continue(c, [calls[c] EXCEPT !.pc = "iwrite", !.devs = ignored])
  /\ UNCHANGED deviceVars

WriteIgnored(c) ==
  /\ calls[c].pc = "iwrite"
  /\ ignoredFile' = calls[c].devs
  /\ Return(c)
  /\ UNCHANGED <<ignored, crossed, mobileVars, linkVars>>

-----------------------------------------------------------------------------
\* main: files are loaded and the stored BLE devices sent to the supervisor,
\* which has started too.
ReloadDevices ==
  /\ mobile' = mobileFile /\ listed' = DevsOf(mobileFile)
  /\ links' = linksFile
  /\ ignored' = ignoredFile
  /\ kept' = linksFile /\ forgotten' = {} /\ missed' = {} /\ crossed' = FALSE
  /\ UNCHANGED <<mobileFile, linksFile, ignoredFile>>

DeviceRequest(c) ==
  \/ Page(c)
  \/ \E items \in SUBSET Items : items # {} /\ Ingest(c, items)
  \/ \E d \in Ble : Forget(c, d) \/ Ignore(c, d) \/ Unignore(c, d)

DeviceStep(c) ==
  \/ \E read \in BOOLEAN : PageSnapshot(c, read) \/ IngestSnapshot(c, read)
  \/ IngestStore(c) \/ IngestUpsert(c) \/ IngestUpsertFails(c) \/ IngestLinks(c)
  \/ WriteBack(c) \/ ForgetReplace(c) \/ ForgetReplaceFails(c)
  \/ GiveUpDevices(c) \/ Sink(c) \/ LandUpsert(c) \/ LandReplace(c)
  \/ ListIgnored(c) \/ WriteIgnored(c)

DeviceBrief == \E p, s \in Devs : Link(p, s) \/ Unlink(p, s)

-----------------------------------------------------------------------------
(* What the pages show                                                     *)

\* build_unified_devices: of the network records with one address, the one
\* that is preferred, in the order of the snapshot.
PreferNew(old, new) ==
  (~old.mac /\ new.mac) \/ (~old.active /\ new.active) \/ (old.generic /\ ~new.generic)
Improved(best, i) ==
  LET old == best[Net[i].address] IN
    IF old = 0 \/ PreferNew(Net[old], Net[i]) THEN [best EXCEPT ![Net[i].address] = i] ELSE best
Better[i \in 0..Len(Net)] ==
  IF i = 0 THEN [a \in {Net[k].address : k \in DOMAIN Net} |-> 0] ELSE Improved(Better[i - 1], i)
NetRecords == {Net[Better[Len(Net)][a]].id : a \in DOMAIN Better[Len(Net)]}

\* Mutant: no address is an address too.
Deduped_Blank ==
  NetRecords \cup IF listed = {} THEN {} ELSE {CHOOSE b \in listed : TRUE}

Deduped == NetRecords \cup listed

\* A linked device has no row of its own; the row of its primary one shows it.
Rows == {d \in Deduped : \A l \in links : l[2] # d}
Shown == Rows \cup {d \in Deduped : \E p \in Rows : <<p, d>> \in links}

-----------------------------------------------------------------------------
(* Properties                                                              *)

\* A link made by hand stays until it is taken back, or was made while a
\* request that links devices on its own had an older copy of all links.
\* (main.rs 495-515, 1274-1279: read lock, await, write lock.)
LinksKept == kept \subseteq links

\* The supervisor lists every stored BLE device, but for those an ingest is
\* about to send, those of a call that failed or whose request was dropped, and
\* those a dropped forget did not know whose replacement came late.  (main.rs
\* 941-957: only because the lock is held over the call does the replacement
\* know them all; a dropped request lets it go.)
StoredIsListed ==
  DevsOf(mobile) \subseteq
    listed \cup missed
      \cup UNION {DevsOf(calls[c].items) : c \in Under({"ingest"}, {"upsert"})}

\* A BLE device that was forgotten is neither stored nor listed again unless,
\* when it was forgotten, an ingest of it, or a replacement that lists it, of a
\* request that was dropped or not, was on its way to the supervisor.
\* (main.rs 1257-1271: the lock is let go before the upsert.)
ForgottenIsGone == forgotten \cap (listed \cup DevsOf(mobile)) = {}

\* With nobody saving, the file has the ignore list, unless it was changed
\* while it was being saved.  (ignore_list.rs 115-177)
IgnoredCurrent == IgnoreSaving = {} /\ ~crossed => ignoredFile = ignored

\* While no link leads to or from a device that is itself linked, and every
\* primary device has a record, each BLE device and each address is on the
\* page.  (main.rs 3134-3223)
Flat == \A l \in links : l[1] \in Deduped /\ \A m \in links : m[2] # l[1]
NothingHidden ==
  Flat => /\ listed \subseteq Shown
          /\ \A i \in DOMAIN Net : \E k \in DOMAIN Net :
               Net[k].address = Net[i].address /\ Net[k].id \in Shown
=============================================================================
