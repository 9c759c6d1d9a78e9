-------------------------- MODULE MCGatewayProcess --------------------------
(***************************************************************************)
(* The Gateway's process for TLC: one run that may be claimed twice, two   *)
(* places.  The unit of time is ten seconds: a lease of sixty, heartbeats  *)
(* every twenty, a grace of less than ten.                                 *)
(***************************************************************************)
EXTENDS GatewayProcess

CONSTANT r1

\* A bound: while the first attempt has its place, the child of the second has not
\* begun, or could not be built.
Bounded == Placed(1) => child'[2].state \in {"none", "gone"}

MCGatewayNext == GwNext /\ Bounded
MCGatewaySpec == GwInit /\ [][MCGatewayNext]_gwVars /\ GwFairness
=============================================================================
