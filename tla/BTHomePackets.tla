---------------------------- MODULE BTHomePackets ----------------------------
(***************************************************************************)
(* What the bthome module reads out of an advertisement: the walk over a   *)
(* BTHome V2 payload (parser.rs), the items of a message of a gateway, the *)
(* key of the packet window (dedup.rs) and the event an item stands for    *)
(* (modules/bthome/src/main.rs).  A payload is the sequence of its bytes.  *)
(***************************************************************************)
EXTENDS Integers, Sequences, SequencesExt

PacketId == 0
Battery == 1
Temperature == 2
Humidity == 3
Illuminance == 5
DoorWindow == 26
Motion == 33
ButtonEvent == 58

\* The measurements that become metadata of the device.
Tracked == {Battery, Temperature, Humidity, Illuminance, DoorWindow, Motion, ButtonEvent}

NoButton == 255
NoData == <<>>

-----------------------------------------------------------------------------
\* Bytes after an object id; one byte is read for an id that is not known.
Width(id) ==
  IF id \in {2, 3, 13} THEN 2 ELSE IF id \in {4, 5, 11, 12} THEN 3 ELSE 1

Encrypted(payload) == payload[1] % 2 = 1

\* parse_bthome_v2: an object that is cut off ends the walk, and what was read
\* before it counts.  Of an encrypted packet nothing is read.
Measurements(payload) ==
  LET walk[i \in 2..(Len(payload) + 1)] ==
        IF i > Len(payload) \/ i + Width(payload[i]) > Len(payload) THEN <<>>
        ELSE <<[id |-> payload[i], data |-> SubSeq(payload, i + 1, i + Width(payload[i]))]>>
             \o walk[i + Width(payload[i]) + 1]
  IN IF Encrypted(payload) THEN <<>> ELSE walk[2]

\* The accessors of BTHomePacket take the first measurement of their kind.
First(measurements, id) ==
  LET i == SelectInSeq(measurements, LAMBDA m : m.id = id)
  IN IF i = 0 THEN NoData ELSE measurements[i].data

-----------------------------------------------------------------------------
(* An item: [mac, weak, payload, button].  "weak" is a signal below        *)
(* min_rssi; "button" is the code of a push event that a gateway has       *)
(* decoded itself, with no payload.                                        *)

Parsable(item) == item.button # NoButton \/ item.payload # <<>>

\* What an item says of its device: a partial function from object ids to data.
Readings(item) ==
  IF item.button # NoButton THEN [id \in {ButtonEvent} |-> <<item.button>>]
  ELSE LET m == Measurements(item.payload)
       IN [id \in {i \in Tracked : First(m, i) # NoData} |-> First(m, id)]

\* The key is the packet id where there is one, else the whole payload.
DedupKey(item) ==
  IF item.button # NoButton THEN [mac |-> item.mac, kind |-> "payload", of |-> <<item.button>>]
  ELSE LET id == First(Measurements(item.payload), PacketId)
       IN IF id # NoData THEN [mac |-> item.mac, kind |-> "packet_id", of |-> id]
          ELSE [mac |-> item.mac, kind |-> "payload", of |-> item.payload]

\* The last of the three that applies gives the event its type; "clear" is none.
LiveEvent(item) ==
  LET readings == Readings(item)
  IN IF Motion \in DOMAIN readings /\ readings[Motion] # <<0>> THEN "motion"
     ELSE IF DoorWindow \in DOMAIN readings THEN "contact"
     ELSE IF ButtonEvent \in DOMAIN readings THEN "button"
     ELSE "none"

\* What process_ingest_items works with.  Decoding depends on nothing but the
\* item, so it does not matter when it is done.
Decoded(item) ==
  [mac |-> item.mac, weak |-> item.weak, parsable |-> Parsable(item),
   key |-> IF Parsable(item) THEN DedupKey(item) ELSE <<>>,
   readings |-> IF Parsable(item) THEN Readings(item) ELSE <<>>,
   live |-> IF Parsable(item) THEN LiveEvent(item) ELSE "none"]

-----------------------------------------------------------------------------
(* extract_ingest_items.  A message is an array of messages, a             *)
(* notification with events, a list of a gateway's relay, or one           *)
(* advertisement.  Its form decides in this order; a notification or a     *)
(* relay without items is read as an advertisement.                        *)

Advert(message) ==
  IF message.mac = "" \/ message.payload = <<>> THEN <<>>
  ELSE <<[mac |-> message.mac, weak |-> message.weak, payload |-> message.payload,
          button |-> NoButton]>>

Pushed(event) ==
  [mac |-> event.mac, weak |-> event.weak, payload |-> <<>>, button |-> event.button]

\* An event of a notification: a push that names its device, or data that is
\* an advertisement of its own.
EventItems(event) ==
  IF event.button # NoButton /\ event.mac # "" THEN <<Pushed(event)>> ELSE Advert(event)

\* A relay's entry is taken with an empty payload too, unless it does not decode.
RelayItems(entry) ==
  IF entry.decodes THEN <<[mac |-> entry.mac, weak |-> entry.weak, payload |-> entry.payload,
                           button |-> NoButton]>>
  ELSE <<>>

Gathered(Op(_), parts) == FlattenSeq([i \in DOMAIN parts |-> Op(parts[i])])

ExtractOne(message) ==
  LET items == CASE message.form = "events" -> Gathered(EventItems, message.parts)
                 [] message.form = "relay"  -> Gathered(RelayItems, message.parts)
                 [] OTHER                   -> <<>>
  IN IF items # <<>> THEN items ELSE Advert(message)

Extract(message) ==
  IF message.form = "array" THEN Gathered(ExtractOne, message.parts) ELSE ExtractOne(message)
=============================================================================
