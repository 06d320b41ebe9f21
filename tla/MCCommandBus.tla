---------------------------- MODULE MCCommandBus ----------------------------
(***************************************************************************)
(* One client for a module id and one that asks for everything, channels   *)
(* of two messages: the greeting and one command fill a channel.           *)
(***************************************************************************)
EXTENDS CommandBus

CONSTANTS scanner, light, s1, s2

MCTargets == {scanner, light}
MCClients == {"module", "observer"}
MCFilter  == [c \in MCClients |-> IF c = "module" THEN scanner ELSE Every]
TwoSlots   == {s1, s2}
=============================================================================
