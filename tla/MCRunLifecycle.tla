--------------------------- MODULE MCRunLifecycle ---------------------------
(***************************************************************************)
(* RunLifecycle for TLC: the executor and the recovery loop of one         *)
(* backend, and two requests of the user.                                  *)
(***************************************************************************)
EXTENDS RunLifecycle

CONSTANTS executor, recovery, r1, r2
=============================================================================
