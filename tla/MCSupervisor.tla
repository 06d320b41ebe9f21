---------------------------- MODULE MCSupervisor ----------------------------
(***************************************************************************)
(* Two module ids.  The runs differ in which are managed, which may run as *)
(* outsiders, and how many calls are in flight at once.                    *)
(***************************************************************************)
EXTENDS Supervisor, TLC

CONSTANTS m1, m2, c1, c2

One == {m1}
Two == {m1, m2}
OneCall == {c1}
TwoCalls == {c1, c2}

Symmetry == Permutations(TwoCalls)
=============================================================================
