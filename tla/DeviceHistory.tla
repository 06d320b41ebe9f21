--------------------------- MODULE DeviceHistory ---------------------------
(***************************************************************************)
(* The store of modules/network-discovery/src/history.rs and what its      *)
(* operations make of it.  The store is a function from keys to records;   *)
(* the key is <<"mac", m>> when the record has a MAC and its device id     *)
(* otherwise.  Where the code takes the first match in the order of a      *)
(* HashMap, an operator yields the set of the possible stores.             *)
(***************************************************************************)
EXTENDS Scanner

CONSTANTS
  Documented,   \* keys of the documentation file, as store keys
  Categorised   \* MACs with an entry in the categories file

\* The ids "net-..." that are documented as such.
NetKinds == {"net-ip", "net-mac", "net-matter", "net-ha"}

\* What is documented is a MAC, a device of this module or one of another module
\* (<<"doc", id>>); the files are finite.
ASSUME HistoryAssumption ==
  /\ IsFiniteSet(Documented) /\ IsFiniteSet(Categorised) /\ "none" \notin Categorised
  /\ \A k \in Documented : k = <<k[1], k[2]>> /\ k[1] \in NetKinds \cup {"mac", "doc"}
                          /\ (k[1] = "mac" => k[2] # "none")

Empty == [k \in {} |-> k]

RecordKey(mac, id) == IF mac # "none" THEN <<"mac", mac>> ELSE id

KeyOf(r) == RecordKey(r.mac, r.id)

With(store, k, r) == [x \in DOMAIN store \cup {k} |-> IF x = k THEN r ELSE store[x]]

Without(store, k) == [x \in DOMAIN store \ {k} |-> store[x]]

Generic(name) == name = "Host"

\* Mutant: the name last reported is taken.
BetterName_Last(new, old) == new

\* A friendly name is kept when the new one is "Host ...".
BetterName(new, old) == IF Generic(new) /\ ~Generic(old) THEN old ELSE new

BetterKind(new, old) ==
  IF new = "network-device" /\ old # "network-device" THEN old ELSE new

-----------------------------------------------------------------------------
(* cleanup_duplicates                                                      *)

MergeRecords(target, other) ==
  [target EXCEPT !.active = @ \/ other.active,
                 !.ever = @ \/ other.active \/ other.ever,
                 !.pure = @ /\ other.pure,
                 !.name = BetterName(@, other.name),
                 !.kind = BetterKind(@, other.kind),
                 !.mac = IF @ = "none" THEN other.mac ELSE @]

Absorb(store, r) ==
  LET k == KeyOf(r)
  IN  IF k \in DOMAIN store THEN [store EXCEPT ![k] = MergeRecords(@, r)]
      ELSE With(store, k, r)

\* The keys in some order; it matters only for records that share their key.
Sharing(store) ==
  {j \in DOMAIN store : \E k \in DOMAIN store \ {j} : KeyOf(store[j]) = KeyOf(store[k])}

Orders(store) ==
  {Listing(DOMAIN store \ Sharing(store)) \o s : s \in SetToSeqs(Sharing(store))}

Rekeyed(store) ==
  {FoldLeft(LAMBDA s, k : Absorb(s, store[k]), Empty, order) : order \in Orders(store)}

\* A record without MAC is a ghost of a record with MAC and the same address;
\* of several such records one is taken for each address.
MacKeys(store, ip) == {k \in DOMAIN store : store[k].mac # "none" /\ store[k].ip = ip}

Ghosts(store) ==
  {g \in DOMAIN store : /\ store[g].mac = "none" /\ store[g].ip # <<>>
                        /\ MacKeys(store, store[g].ip) # {}}

BodyChoices(store) ==
  LET ips == {store[g].ip : g \in Ghosts(store)}
  IN  {f \in [ips -> DOMAIN store] : \A ip \in ips : f[ip] \in MacKeys(store, ip)}

Laid(store, g, k) == [Without(store, g) EXCEPT ![k] = MergeRecords(@, store[g])]

Unghosted(store) ==
  {FoldLeft(LAMBDA s, g : Laid(s, g, body[store[g].ip]), store, Listing(Ghosts(store)))
     : body \in BodyChoices(store)}

\* Mutant: ghosts stay.
CleanupDuplicates_Rekey(store) == Rekeyed(store)

CleanupDuplicates(store) == UNION {Unghosted(s) : s \in Rekeyed(store)}

-----------------------------------------------------------------------------
(* load_from_path, seed_known_devices                                      *)

\* A record of the time before was_ever_active was active once, unless it is
\* known from the router's list alone.
Repaired(r) == [r EXCEPT !.ever = @ \/ r.active \/ ~r.pure]

LoadFromPath(file) == CleanupDuplicates([k \in DOMAIN file |-> Repaired(file[k])])

Known(store, k) ==
  \E j \in DOMAIN store : j = k \/ KeyOf(store[j]) = k \/ store[j].id = k

\* The id of a seed begins with "net-" and its address is what follows that.  The
\* seed of a device of another module has another id than its key.
SeedId(k) == IF k[1] = "mac" THEN <<"net-mac", k[2]>>
             ELSE IF k[1] \in NetKinds THEN k ELSE <<"net-doc", k[2]>>

SeedIp(k) == IF k[1] = "net-ip" THEN <<k[2]>>
             ELSE IF k[1] \in NetKinds THEN NoAddress(k[1], k[2]) ELSE <<>>

Seed(k, name, kind) ==
  [id |-> SeedId(k), name |-> name, kind |-> kind, ip |-> SeedIp(k),
   mac |-> IF k[1] = "mac" THEN k[2] ELSE "none",
   pure |-> FALSE, active |-> FALSE, ever |-> TRUE]

\* A category also gives a known record of no kind its kind.
SeedCategory(store, m) ==
  LET k == <<"mac", m>>
  IN  IF Known(store, k)
        THEN [j \in DOMAIN store |->
               IF (j = k \/ KeyOf(store[j]) = k) /\ store[j].kind = "network-device"
                 THEN [store[j] EXCEPT !.kind = "configured"] ELSE store[j]]
        ELSE With(store, k, Seed(k, "Device", "configured"))

SeedDocument(store, k) ==
  IF Known(store, k) THEN store ELSE With(store, k, Seed(k, "Documented", "computer"))

SeedKnownDevices(store) ==
  FoldLeft(SeedDocument, FoldLeft(SeedCategory, store, Listing(Categorised)),
           Listing(Documented))

-----------------------------------------------------------------------------
(* reconcile_sweep, forget_device, to_proto_device                         *)

\* By key, then by MAC, then by address.
MatchedKeys(store, d) ==
  LET key    == RecordKey(d.mac, d.id)
      byMac  == {k \in DOMAIN store : d.mac # "none" /\ store[k].mac = d.mac}
      byAddr == {k \in DOMAIN store : d.ip # <<>> /\ store[k].ip = d.ip}
  IN  IF key \in DOMAIN store THEN {key}
      ELSE IF byMac # {} THEN byMac ELSE byAddr

Present(d) == d.hint # "no"

NewRecord(d) ==
  [id |-> d.id, name |-> d.name, kind |-> d.kind, ip |-> d.ip, mac |-> d.mac,
   pure |-> d.sources = {"fritzbox-tr064"}, active |-> Present(d), ever |-> Present(d)]

\* Mutant: a device that is gone counts as never seen.
Updated_Forgetful(r, d) ==
  [r EXCEPT !.active = Present(d), !.ever = Present(d), !.ip = d.ip,
            !.pure = @ /\ d.sources = {"fritzbox-tr064"},
            !.mac = IF d.mac # "none" THEN d.mac ELSE @,
            !.name = BetterName(d.name, @), !.kind = BetterKind(d.kind, @)]

Updated(r, d) ==
  [r EXCEPT !.active = Present(d),
            !.ever = @ \/ Present(d),
            !.ip = d.ip,
            !.pure = @ /\ d.sources = {"fritzbox-tr064"},
            !.mac = IF d.mac # "none" THEN d.mac ELSE @,
            !.name = BetterName(d.name, @),
            !.kind = BetterKind(d.kind, @)]

\* The stores after one device of the sweep: its record moves to its key.
ReconcileDevice(store, d) ==
  LET key == RecordKey(d.mac, d.id)
      old == MatchedKeys(store, d)
  IN  IF old = {} THEN {With(store, key, NewRecord(d))}
      ELSE {With(Without(store, k), key, Updated(store[k], d)) : k \in old}

SeenKeys(sweep) == {RecordKey(sweep[i].mac, sweep[i].id) : i \in DOMAIN sweep}

\* Mutant: a record that the sweep does not report goes.
MarkMissing_Drop(store, sweep) ==
  [k \in DOMAIN store \cap {RecordKey(sweep[i].mac, sweep[i].id) : i \in DOMAIN sweep} |-> store[k]]

\* Mutant: a record that the sweep does not report stays active.
MarkMissing_None(store, sweep) == store

MarkMissing(store, sweep) ==
  [k \in DOMAIN store |->
    IF k \in SeenKeys(sweep) THEN store[k] ELSE [store[k] EXCEPT !.active = FALSE]]

ReconcileSweep(store, sweep) ==
  LET each == FoldLeft(LAMBDA stores, d : UNION {ReconcileDevice(s, d) : s \in stores},
                       {store}, sweep)
  IN  UNION {CleanupDuplicates(MarkMissing(s, sweep)) : s \in each}

ForgetDevice(store, k) ==
  [j \in {j \in DOMAIN store : j # k /\ store[j].id # k /\ KeyOf(store[j]) # k}
    |-> store[j]]

Status(r) == IF r.active THEN "active" ELSE IF r.ever THEN "inactive" ELSE "archive"
=============================================================================
