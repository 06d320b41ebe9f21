------------------------------ MODULE Scanner ------------------------------
(***************************************************************************)
(* The pure part of modules/network-discovery/src/scanner.rs: what a scan  *)
(* makes of its observations.  Observations of one address are aggregated  *)
(* to one device, devices behind the MAC of the gateway become VPN peers,  *)
(* and Matter nodes, Home Assistant instances and web pages are attached.  *)
(*                                                                         *)
(* An IPv4 address is a number, an `ip' is <<a>>, <<a, port>>, <<>> or a   *)
(* text that is no address (NoAddress).  A text (a name) is an opaque      *)
(* value; Marks says which words of the classifier it contains.  The Rhai  *)
(* engine and the product catalog are functions of the names.              *)
(***************************************************************************)
EXTENDS Integers, Sequences, FiniteSets, SequencesExt

CONSTANTS
  Gateway,      \* the address that ends in .1
  Marks,        \* words contained in a text
  ScriptKind,   \* what RhaiDeviceEngine::identify says of a name, or "none"
  ProductKind,  \* category of the product that a host name matches, or "none"
  VendorOf      \* vendor of a MAC, or "none"

Observation(ip, mac, host, source, hint) ==
  [ip |-> ip, mac |-> mac, host |-> host, source |-> source, hint |-> hint]

\* A text in the place of an address.
NoAddress(kind, text) == <<"text", kind, text>>

\* A set as a sequence, in some order.
Listing(S) == FoldSet(LAMBDA x, s : Append(s, x), <<>>, S)

-----------------------------------------------------------------------------
(* Classification                                                          *)

\* The rules of classify_device_full in their order: <<word, kind>>.
Rules == <<
  <<"switch", "switch">>, <<"vpn", "vpn">>, <<"3d", "3d-printer">>,
  <<"printer", "printer">>, <<"synology", "nas">>, <<"repeater", "router">>,
  <<"awtrix", "display">>, <<"meshtastic", "radio">>, <<"presence", "sensor">>,
  <<"fronius", "energy">>, <<"miele", "appliance">>, <<"govee", "lighting">>,
  <<"switchbot", "hub">>, <<"plug", "smart-plug">>, <<"camera", "camera">>,
  <<"watch", "wearable">>, <<"iphone", "mobile">>, <<"macbook", "computer">>,
  <<"tv", "streaming">>, <<"homepod", "audio">>, <<"voip", "phone">>,
  <<"ecoflow", "energy">>, <<"shelly-em", "energy">>, <<"hue", "hub">>,
  <<"netatmo", "sensor">>, <<"esp", "iot">>, <<"router", "router">> >>

Words(name, ip, host, vendor) ==
  LET said == Marks[name] \cup Marks[host] \cup Marks[vendor]
              \cup (IF ip = <<Gateway>> THEN {"router"} ELSE {})
  IN  IF said \cap {"switchbot", "nintendo"} # {} THEN said \ {"switch"} ELSE said

ClassifyDeviceFull(name, ip, host, vendor) ==
  LET hits == SelectSeq(Rules, LAMBDA r : r[1] \in Words(name, ip, host, vendor))
  IN  IF hits = <<>> THEN "network-device" ELSE Head(hits)[2]

ClassifyWithEngine(name, ip, host, vendor) ==
  IF ScriptKind[name] # "none" THEN ScriptKind[name]
  ELSE ClassifyDeviceFull(name, ip, host, vendor)

\* A kind once found is not given up for "network-device".
Specific(new, old) == IF new # "network-device" THEN new ELSE old

KindOf(name, ip, mac, host, old) ==
  LET kind == Specific(ClassifyWithEngine(name, ip, host, VendorOf[mac]), old)
  IN  IF kind = "network-device" /\ ProductKind[host] # "none"
        THEN ProductKind[host] ELSE kind

-----------------------------------------------------------------------------
(* aggregate_and_classify                                                  *)

Key(o) == IF o.ip # <<>> THEN <<"ip", o.ip[1]>>
          ELSE IF o.mac # "none" THEN <<"mac", o.mac>>
          ELSE <<"raw", o.source>>

DeviceId(o) == IF o.ip # <<>> THEN <<"net-ip", o.ip[1]>>
               ELSE IF o.mac # "none" THEN <<"net-mac", o.mac>>
               ELSE <<"net-raw", o.source>>

DisplayName(o) == IF o.host # "none" THEN o.host
                  ELSE IF o.ip # <<>> THEN "Host" ELSE "Switch"

FirstEntry(o) ==
  [id |-> DeviceId(o), name |-> DisplayName(o), ip |-> o.ip, mac |-> o.mac,
   host |-> o.host, iface |-> "lan", sources |-> {o.source}, hint |-> o.hint,
   url |-> <<>>, fabrics |-> {},
   kind |-> KindOf(DisplayName(o), o.ip, o.mac, o.host, "network-device")]

\* The first MAC is kept; a host name replaces a missing one or "Host ...".
TakeMac(d, o) ==
  IF d.mac # "none" \/ o.mac = "none" THEN d
  ELSE [d EXCEPT !.mac = o.mac, !.kind = KindOf(d.name, d.ip, o.mac, d.host, d.kind)]

TakeHost(d, o) ==
  IF o.host = "none" \/ (d.host # "none" /\ d.name # "Host") THEN d
  ELSE [d EXCEPT !.name = o.host, !.host = o.host,
                 !.kind = KindOf(o.host, d.ip, d.mac, o.host, d.kind)]

TakeHint(d, o) ==
  IF o.hint = "yes" \/ d.hint = "unknown" THEN [d EXCEPT !.hint = o.hint] ELSE d

Taken(d, o) ==
  [TakeHint(TakeHost(TakeMac(d, o), o), o) EXCEPT !.sources = @ \cup {o.source}]

\* The entry of the observation's key takes what it says; the first one makes it.
Entered(entries, o) ==
  LET key == Key(o)
      old == IF key \in DOMAIN entries THEN entries[key] ELSE FirstEntry(o)
  IN  [k \in DOMAIN entries \cup {key} |-> IF k = key THEN Taken(old, o) ELSE entries[k]]

Aggregated(observations) ==
  LET entries == FoldLeft(Entered, [k \in {} |-> k], observations)
  IN  {entries[k] : k \in DOMAIN entries}

IsGateway(d) == d.ip = <<Gateway>> \/ "fritz.box" \in {d.host, d.name}

\* The MAC of the first gateway found; there is one.
GatewayMac(devices) ==
  LET gateways == {d \in devices : IsGateway(d)}
  IN  IF gateways = {} THEN "none" ELSE (CHOOSE g \in gateways : TRUE).mac

\* A device with the MAC of the gateway is a VPN peer it answers for.
ProxyPeer(d, devices) ==
  ~IsGateway(d) /\ d.mac # "none" /\ d.mac = GatewayMac(devices)

\* One peer is known by its name.
NamedPeer(d) == "iphonestephan" \in Marks[d.host] \cup Marks[d.name]

PeerName(d) ==
  IF NamedPeer(d) THEN "iPhone Stephan"
  ELSE IF "vpn" \in Marks[d.host] THEN d.name ELSE "VPN"

VpnMarked(devices) ==
  {IF ProxyPeer(d, devices) \/ NamedPeer(d)
     THEN [d EXCEPT !.iface = "vpn", !.kind = "vpn", !.name = PeerName(d),
                    !.host = IF NamedPeer(d) THEN "iphonestephan" ELSE @]
     ELSE d : d \in devices}

\* Devices with an address come first, in the order of their addresses.
Before(d, e) == d.ip # <<>> /\ (e.ip = <<>> \/ d.ip[1] < e.ip[1])
InOrder(devices) ==
  MapThenFoldSet(LAMBDA d, s : Append(s, d), <<>>, LAMBDA d : d,
                 LAMBDA rest : CHOOSE d \in rest : \A e \in rest : ~Before(d, e), devices)

\* Mutant: one device for each MAC address.
AggregateAndClassify_ByMac(observations) ==
  LET all == VpnMarked(Aggregated(observations))
  IN  InOrder({d \in all : ~\E e \in all : Before(e, d) /\ e.mac = d.mac})

AggregateAndClassify(observations) == InOrder(VpnMarked(Aggregated(observations)))

-----------------------------------------------------------------------------
(* Matter, Home Assistant and web pages                                    *)

\* A Matter node is [fabric, target, mac, ip]: one advertised instance.
Matches(d, n) == \/ n.mac # "none" /\ n.mac = d.mac
                 \/ n.ip # <<>> /\ n.ip = d.ip
                 \/ n.target = d.host

FabricsOf(nodes) == {n.fabric : n \in nodes}

WithFabrics(d, nodes) ==
  LET own == {n \in nodes : Matches(d, n)}
  IN  IF own = {} THEN d
      ELSE [d EXCEPT !.sources = @ \cup {"matter-mdns"}, !.fabrics = FabricsOf(own)]

\* Mutant: an instance without an address does not make a device.
Unmatched_Addressed(devices, nodes) ==
  {n \in nodes : n.ip # <<>> /\ ~\E d \in devices : Matches(d, n)}

\* What is left over makes one device for each target host.  When one instance
\* of a target matched a device, the others of that target are not left over.
Unmatched(devices, nodes) ==
  LET matched == {n.target : n \in {m \in nodes : \E d \in devices : Matches(d, m)}}
  IN  {n \in nodes : n.target \notin matched}

\* A node without an address gets its target host for one.
ThreadDevice(target, nodes) ==
  LET first == CHOOSE n \in nodes : n.target = target
  IN  [id |-> <<"net-matter", target>>, name |-> "Thread", kind |-> "sensor",
       ip |-> IF first.ip = <<>> THEN NoAddress("host", target) ELSE first.ip,
       mac |-> first.mac, host |-> target, iface |-> "thread",
       sources |-> {"matter-mdns"}, hint |-> "unknown", url |-> <<>>,
       fabrics |-> FabricsOf({n \in nodes : n.target = target})]

EnrichMatterFabrics(devices, nodes) ==
  LET left == Unmatched(ToSet(devices), nodes)
  IN  [i \in DOMAIN devices |-> WithFabrics(devices[i], nodes)]
      \o Listing({ThreadDevice(t, left) : t \in {n.target : n \in left}})

\* An instance is [id, ip, port].  It runs on the device that has its address,
\* whose MAC it gets.
HubDevice(h, devices) ==
  LET on == {i \in DOMAIN devices : devices[i].ip = <<h.ip>>}
  IN  [id |-> <<"net-ha", h.id>>, name |-> "Home Assistant", kind |-> "hub",
       ip |-> <<h.ip, h.port>>, mac |-> IF on = {} THEN "none" ELSE devices[Min(on)].mac,
       host |-> "homeassistant", iface |-> "virtual",
       sources |-> {"mdns_homeassistant"}, hint |-> "unknown",
       url |-> <<h.ip, h.port>>, fabrics |-> {"ha"}]

AddHub(devices, h) ==
  IF \E d \in ToSet(devices) : d.id = <<"net-ha", h.id>> \/ d.url = <<h.ip, h.port>>
    THEN devices ELSE Append(devices, HubDevice(h, devices))

DiscoverHomeAssistant(devices, instances) == FoldLeft(AddHub, devices, instances)

\* The web probe asks the devices whose address is a plain IPv4 address.
Probed(d) == Len(d.ip) = 1

EnrichWebUrls(devices, pages) ==
  [i \in DOMAIN devices |->
    IF Probed(devices[i]) /\ devices[i].ip[1] \in pages
      THEN [devices[i] EXCEPT !.url = devices[i].ip,
                              !.sources = @ \cup {"http-probe"}]
      ELSE devices[i]]
=============================================================================
