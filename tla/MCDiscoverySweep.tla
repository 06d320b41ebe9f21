-------------------------- MODULE MCDiscoverySweep --------------------------
(***************************************************************************)
(* Two devices: one can be forgotten while the other keeps the list from   *)
(* being empty.  Their records can share an id or have one each.           *)
(***************************************************************************)
EXTENDS DiscoverySweep, TLC

CONSTANTS d1, d2, i1, i2

One == {d1}
Two == {d1, d2}
TwoIds == {i1, i2}
Seeds == d1 :> i1

\* A sweep finds nothing, d2 at one of two addresses, or d1 beside d2.
MCSweeps ==
  {sweep \in History : /\ \A d \in Two : sweep[d] # None => sweep[d].state = "active"
                       /\ sweep[d1] # None => sweep[d1].id = i1 /\ sweep[d2] # None /\ sweep[d2].id = i2}
=============================================================================
