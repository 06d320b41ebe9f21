-------------------------- MODULE MCSocketLifecycle --------------------------
(***************************************************************************)
(* Three supervisors started over one socket path.                         *)
(***************************************************************************)
EXTENDS SocketLifecycle

CONSTANTS s1, s2, s3

ThreeInstances == {s1, s2, s3}
=============================================================================
