----------------------------- MODULE MCHueModule -----------------------------
(***************************************************************************)
(* One light, with or without a sensor, and one or two HTTP requests in    *)
(* progress beside the polling loop and the command task.                  *)
(***************************************************************************)
EXTENDS HueModule, TLC

CONSTANTS lamp, motion, r1, r2

OneLight == {lamp}
OneSensor == {motion}
OneRequest == {r1}
TwoRequests == {r1, r2}
Symmetry == Permutations(TwoRequests)
=============================================================================
