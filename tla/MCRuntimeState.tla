--------------------------- MODULE MCRuntimeState ---------------------------
(***************************************************************************)
(* Two known module ids and one unknown, two devices, batches of up to two *)
(* records: enough for a list whose first record is stored and whose       *)
(* second is foreign, for two records of one key, and for two owners.      *)
(***************************************************************************)
EXTENDS RuntimeState, TLC

CONSTANTS m1, m2, stranger, d1, d2

MCKnownIds  == {m1, m2}
MCIds       == {m1, m2, stranger}
MCDeviceIds == {d1, d2}

Symmetry == Permutations(MCKnownIds) \union Permutations(MCDeviceIds)
=============================================================================
