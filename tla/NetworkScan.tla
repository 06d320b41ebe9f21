---------------------------- MODULE NetworkScan ----------------------------
(***************************************************************************)
(* A network whose stations come, go and change their addresses, the scan  *)
(* of modules/network-discovery/src/scanner.rs, which asks one source      *)
(* after the other while that goes on, and the history its result is       *)
(* reconciled with.                                                        *)
(*                                                                         *)
(* Station s has the address net[s], 0 when it is away.  The gateway has   *)
(* its own address and answers for the VPN peers with its MAC.  The store  *)
(* is saved whenever it changes (module DiscoverySweep has the saves that  *)
(* fail), so a restart loads it as it is.                                  *)
(***************************************************************************)
EXTENDS DeviceHistory

CONSTANTS
  Stations,     \* MACs of the stations
  Pool,         \* addresses the stations get
  Peers,        \* addresses of VPN peers
  GatewayMac_,  \* MAC of the gateway
  Switches,     \* MACs that the router lists without an address
  NameOf,       \* host name of a station, as its router and mDNS know it
  Advertising,  \* stations that answer mDNS
  MatterNodes,  \* [fabric, target, station, addressed]
  HubOn,        \* the station that Home Assistant runs on, or "none"
  MaxInputs     \* bound: moves, silent sources, commands and restarts; a lost
                \* probe and a missing or bare entry of the router count twice

ASSUME AddressAssumption ==
  /\ Pool \subseteq Nat \ {0} /\ Peers \subseteq Nat \ {0} /\ Gateway \in Nat \ {0}
  /\ Gateway \notin Pool \cup Peers /\ Pool \cap Peers = {}
\* "none" is no MAC, and what mDNS names is on a station.
ASSUME StationAssumption ==
  /\ "none" \notin Stations \cup Switches \cup {GatewayMac_}
  /\ IsFiniteSet(Stations) /\ IsFiniteSet(Switches) /\ IsFiniteSet(MatterNodes)
  /\ IsFiniteSet(Pool) /\ IsFiniteSet(Peers)
  /\ Advertising \subseteq Stations /\ HubOn \in Stations \cup {"none"}
  /\ \A n \in MatterNodes : n.addressed => n.station \in Stations
ASSUME BoundAssumption == MaxInputs \in Nat

VARIABLES
  net,          \* address of each station
  lease,        \* the address the router has noted for it
  cache,        \* neighbour cache of the kernel
  phase,        \* where the scan stands
  observations, \* of the scan
  heard,        \* Matter nodes the scan heard of
  devices,      \* result of the scan
  store,        \* DeviceHistoryStore::records, and its file
  inputs

vars == <<net, lease, cache, phase, observations, heard, devices, store, inputs>>
world == <<net, lease>>

Addresses == Pool \cup Peers \cup {Gateway}
Macs == Stations \cup Switches \cup {GatewayMac_}

MacAt(a) == IF a \in Peers \cup {Gateway} THEN GatewayMac_
            ELSE IF \E s \in Stations : net[s] = a
                   THEN CHOOSE s \in Stations : net[s] = a ELSE "none"

Live == {a \in Addresses : MacAt(a) # "none"}

Spend(n) == inputs + n <= MaxInputs /\ inputs' = inputs + n

\* The sets of faults that MaxInputs still admits.
Few(S) == {T \in SUBSET S : inputs + Cardinality(T) <= MaxInputs}

-----------------------------------------------------------------------------
(* The sources of a scan                                                   *)

\* collect_from_arp, collect_from_ip_neigh: entries with a MAC.
CollectFrom(c, source) ==
  LET known == Listing({a \in Addresses : c[a] # "none"})
  IN  [i \in DOMAIN known |->
        Observation(<<known[i]>>, c[known[i]], "none", source, "unknown")]

Neighbours(c) == CollectFrom(c, "arp") \o CollectFrom(c, "neigh")

\* run_active_sweep: the addresses that answered a probe.
Probes(answers) ==
  LET s == Listing(answers)
  IN  [i \in DOMAIN s |-> Observation(<<s[i]>>, "none", "none", "active-probe", "unknown")]

\* collect_from_mdns
MdnsHints ==
  LET s == Listing({m \in Advertising : net[m] # 0})
  IN  [i \in DOMAIN s |-> Observation(<<net[s[i]]>>, "none", NameOf[s[i]], "mdns", "unknown")]

\* collect_from_fritzbox: every host the router has a lease of, and what is
\* connected without an address; its entries arrive in any order.  The flag is
\* wrong for the entries in stale, the MAC is missing from those in bare, and an
\* entry that the router does not answer for, or has no name for, is not listed.
Leased == {s \in Stations : lease[s] # 0}
Registered == Leased \cup Switches

\* An entry without address and MAC is taken for a switch by its name.
Bare == {s \in Registered : s \in Switches => NameOf[s] = "switch"}

RouterSays(s, stale) ==
  IF (s \in Switches \/ net[s] = lease[s]) # (s \in stale) THEN "yes" ELSE "no"

RouterEntries(order, stale, bare) ==
  [i \in DOMAIN order |->
    LET s == order[i]
    IN  Observation(IF s \in Switches THEN <<>> ELSE <<lease[s]>>,
                    IF s \in bare THEN "none" ELSE s,
                    NameOf[s], "fritzbox-tr064", RouterSays(s, stale))]

\* The orders that make a difference: of hosts with an address.
Listings(listed) ==
  {q \o Listing(listed \cap Switches) : q \in SetToSeqs(listed \ Switches)}

\* enrich_hostnames: reverse DNS for the addresses observed without a name.
Resolved(a) == IF a = Gateway THEN "fritz.box"
               ELSE IF a \in Pool /\ MacAt(a) # "none" THEN NameOf[MacAt(a)] ELSE "none"

EnrichHostnames(obs) ==
  [i \in DOMAIN obs |->
    IF obs[i].host = "none" /\ obs[i].ip # <<>>
      THEN [obs[i] EXCEPT !.host = Resolved(obs[i].ip[1])] ELSE obs[i]]

\* collect_matter_nodes
CollectMatterNodes ==
  {[fabric |-> n.fabric, target |-> n.target, mac |-> "none",
    ip |-> IF n.addressed THEN <<net[n.station]>> ELSE <<>>] :
      n \in {m \in MatterNodes : m.station \in Stations => net[m.station] # 0}}

\* collect_home_assistant_instances, or the probe of port 8123 of the devices
\* found when it is silent, which may have no answer.
HubInstance(id) == <<[id |-> id, ip |-> net[HubOn], port |-> 8123]>>

HubInstances(silent, found) ==
  IF HubOn = "none" THEN {<<>>}
  ELSE IF net[HubOn] = 0 THEN {<<>>}
  ELSE IF ~silent THEN {HubInstance("hub")}
  ELSE {<<>>} \cup {HubInstance(ToString(net[HubOn])) :
                      d \in {d \in ToSet(found) : d.ip = <<net[HubOn]>>}}

-----------------------------------------------------------------------------
(* Actions                                                                 *)

Move(s, a) ==
  /\ Spend(1)
  /\ net[s] # a
  /\ a = 0 \/ MacAt(a) = "none"
  /\ net' = [net EXCEPT ![s] = a]
  /\ lease' = IF a = 0 THEN lease ELSE [lease EXCEPT ![s] = a]
  /\ UNCHANGED <<cache, phase, observations, heard, devices, store>>

\* scan begins with the neighbours that the kernel knows.
BeginScan ==
  /\ phase = "idle"
  /\ phase' = "probing"
  /\ observations' = Neighbours(cache)
  /\ UNCHANGED <<world, cache, heard, devices, store, inputs>>

\* An address that a probe was sent to is resolved by the kernel, also when the
\* probe has no answer; the entry of a host that left may still be there.
Probe ==
  /\ phase = "probing"
  /\ phase' = "enriching"
  /\ \E lost \in Few(Live) : \E old \in BOOLEAN :
       /\ Spend(2 * Cardinality(lost))
       /\ cache' = [a \in Addresses |->
                     IF a \in Live THEN MacAt(a) ELSE IF old THEN cache[a] ELSE "none"]
       /\ observations' = observations \o Probes(Live \ lost) \o Neighbours(cache')
  /\ UNCHANGED <<world, heard, devices, store>>

Sources == {"mdns", "fritzbox", "dns", "matter", "homeassistant", "web"}

\* Every source may be silent: a command that is missing, a timeout.
Observed(silent, order, stale, bare) ==
  LET all == observations
             \o (IF "mdns" \in silent THEN <<>> ELSE MdnsHints)
             \o (IF "fritzbox" \in silent THEN <<>> ELSE RouterEntries(order, stale, bare))
  IN  IF "dns" \in silent THEN all ELSE EnrichHostnames(all)

Scanned(obs, nodes, silent) ==
  LET fabric == EnrichMatterFabrics(AggregateAndClassify(obs), nodes)
  IN  {EnrichWebUrls(DiscoverHomeAssistant(fabric, hubs),
                     IF "web" \in silent THEN {} ELSE Live) :
         hubs \in HubInstances("homeassistant" \in silent, fabric)}

Enrich ==
  /\ phase = "enriching"
  /\ phase' = "scanned"
  /\ \E silent \in Few(Sources), missed \in Few(Registered) :
     \E stale \in Few(Registered \ missed), bare \in Few(Bare \ missed) :
       /\ Spend(Cardinality(silent) + Cardinality(stale)
                + 2 * Cardinality(bare) + 2 * Cardinality(missed))
       /\ heard' = IF "matter" \in silent THEN {} ELSE CollectMatterNodes
       /\ \E order \in Listings(Registered \ missed) :
            /\ observations' = Observed(silent, order, stale, bare)
            /\ devices' \in Scanned(observations', heard', silent)
  /\ UNCHANGED <<world, cache, store>>

\* The interfaces cannot be listed: the sweep counts as one that saw nothing.
ScanFails ==
  /\ phase = "idle"
  /\ Spend(1)
  /\ phase' = "scanned"
  /\ UNCHANGED <<world, cache, observations, heard, devices, store>>

Reconcile ==
  /\ phase = "scanned"
  /\ phase' = "idle"
  /\ observations' = <<>> /\ heard' = {} /\ devices' = <<>>
  /\ UNCHANGED <<world, cache, inputs>>
  /\ store' \in ReconcileSweep(store, devices)

Forget(k) ==
  /\ Spend(1)
  /\ k \in DOMAIN store
  /\ store' = ForgetDevice(store, k)
  /\ UNCHANGED <<world, cache, phase, observations, heard, devices>>

Restart ==
  /\ Spend(1)
  /\ phase' = "idle"
  /\ observations' = <<>> /\ heard' = {} /\ devices' = <<>>
  /\ UNCHANGED <<world, cache>>
  /\ store' \in {SeedKnownDevices(s) : s \in LoadFromPath(store)}

\* The program starts on a network that is there already.
Init ==
  /\ net \in {f \in [Stations -> Pool \cup {0}] :
               \A s, t \in Stations : s # t /\ f[s] = f[t] => f[s] = 0}
  /\ lease = net
  /\ cache = [a \in Addresses |-> "none"]
  /\ phase = "idle"
  /\ observations = <<>> /\ heard = {} /\ devices = <<>>
  /\ store = SeedKnownDevices(Empty)
  /\ inputs = 0

Next ==
  \/ \E s \in Stations, a \in Pool \cup {0} : Move(s, a)
  \/ BeginScan \/ Probe \/ Enrich \/ ScanFails \/ Reconcile
  \/ \E k \in DOMAIN store : Forget(k)
  \/ Restart

Spec == Init /\ [][Next]_vars

-----------------------------------------------------------------------------
(* Properties                                                              *)

\* Every address that a source names is a device of its own with an id of its
\* own, although several addresses share a MAC (aggregate_and_classify,
\* discover_home_assistant).
ScanComplete ==
  phase = "scanned" =>
    /\ \A i, j \in DOMAIN devices : devices[i].id = devices[j].id => i = j
    /\ \A i \in DOMAIN observations :
         \E j \in DOMAIN devices :
           /\ devices[j].id = DeviceId(observations[i])
           /\ devices[j].ip = observations[i].ip
           /\ observations[i].ip = <<>> => devices[j].mac = observations[i].mac

\* A Matter node that was heard is shown: its target host is a device, or one of
\* its instances is a fabric of a device (enrich_matter_fabrics).
MatterPlaced ==
  phase = "scanned" =>
    \A n \in heard : \E i \in DOMAIN devices :
      /\ devices[i].fabrics # {}
      /\ \/ devices[i].host = n.target
         \/ \E m \in heard : m.target = n.target /\ Matches(devices[i], m)

\* One record for each MAC (cleanup_duplicates, on load and after a sweep), also
\* when the seeds are there.  After a sweep every record is under its own key, and
\* none without a MAC is beside one that has the same address.
NoDuplicates ==
  [][(Reconcile \/ Restart) =>
       /\ \A j, k \in DOMAIN store' :
            store'[j].mac # "none" /\ store'[j].mac = store'[k].mac => j = k
       /\ Reconcile => \A k \in DOMAIN store' : KeyOf(store'[k]) = k
       /\ Reconcile => Ghosts(store') = {}]_vars

\* After a sweep a record is active only when the sweep reports a device with
\* its MAC, its address or its id that the router does not call inactive.
ActiveIsSeen ==
  [][Reconcile =>
       \A k \in DOMAIN store' : store'[k].active =>
         \E i \in DOMAIN devices :
           /\ Present(devices[i])
           /\ \/ devices[i].mac # "none" /\ devices[i].mac = store'[k].mac
              \/ devices[i].ip # <<>> /\ devices[i].ip = store'[k].ip
              \/ devices[i].id = store'[k].id]_vars

\* A record is handed over when it is under another key after a sweep in which a
\* newcomer took one: the newcomer takes the record that had its address, the
\* displaced MAC the record of its own new address, and so on, until the last MAC
\* gets a new record.  The device id goes with the record.
HandedOver(k) ==
  /\ \E n \in DOMAIN store' \ {k} : store'[n].id = store[k].id
  /\ \E n \in DOMAIN store' \ DOMAIN store :
       \E j \in DOMAIN store : store'[n].id = store[j].id

\* A record with a MAC goes at no restart, and in a sweep only when it is handed
\* over: what is not seen stays as inactive (reconcile_sweep, cleanup_duplicates).
RecordsKept ==
  [][(Reconcile \/ Restart) =>
       \A k \in DOMAIN store :
         k[1] = "mac" /\ k \notin DOMAIN store' => Reconcile /\ HandedOver(k)]_vars

\* A record that stays and is not handed over keeps a friendly name and a specific
\* kind, through sweeps without names, merges and restarts (the anti-downgrade
\* rules).
NeverDowngraded ==
  [][\A k \in DOMAIN store \cap DOMAIN store' :
       \/ HandedOver(k)
       \/ /\ Generic(store'[k].name) => Generic(store[k].name)
          /\ store'[k].kind = "network-device" => store[k].kind = "network-device"]_vars

\* The life of a MAC's status is the one StatusLife promises.
StatusOf(m) ==
  IF <<"mac", m>> \in DOMAIN store THEN Status(store[<<"mac", m>>]) ELSE "none"

Life == INSTANCE StatusLife WITH status <- [m \in Macs |-> StatusOf(m)]

LifeSpec == Life!Spec

\* "MacBook must NOT disappear from records" (a test of history.rs): a MAC that
\* has a record has one after the next sweep, whether the sweep saw it or not.
NoneDisappears ==
  [][Reconcile =>
       \A m \in Macs : StatusOf(m) # "none" => StatusOf(m)' # "none"]_vars
=============================================================================
