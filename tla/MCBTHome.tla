------------------------------- MODULE MCBTHome -------------------------------
(***************************************************************************)
(* Two sockets of one gateway and one request.  The messages: the battery  *)
(* of a device, with an object that is cut off, as an advertisement of its *)
(* own and in a relay's list after a device that is ignored; and a press,  *)
(* which the gateway has decoded itself.                                   *)
(***************************************************************************)
EXTENDS BTHome

CONSTANTS s1, s2, r1, gw

TwoSockets == {s1, s2}
OneRequest == {r1}
OneGateway == {gw}

Single(payload) == [form |-> "single", mac |-> "a", weak |-> FALSE, payload |-> payload]
BatteryPacket == <<64, 0, 1, 1, 90, 5, 0>>
OtherPacket == <<64, 0, 2, 58, 1>>

Push == [form |-> "events", mac |-> "", weak |-> FALSE, payload |-> <<>>,
         parts |-> <<[mac |-> "a", weak |-> FALSE, payload |-> <<>>, button |-> 1]>>]
Relayed == [form |-> "relay", mac |-> "", weak |-> FALSE, payload |-> <<>>,
            parts |-> <<[mac |-> "b", weak |-> FALSE, payload |-> OtherPacket, decodes |-> TRUE],
                        [mac |-> "a", weak |-> FALSE, payload |-> BatteryPacket, decodes |-> TRUE]>>]

SomeMessages == {Single(BatteryPacket), Push, Relayed}
=============================================================================
