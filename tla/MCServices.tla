----------------------------- MODULE MCServices -----------------------------
(***************************************************************************)
(* For TLC: the components whose operations go on for longer than one      *)
(* transaction: a tool call of Pi (with two invocations, across attempts), *)
(* the detail of a creator, an exported file, the channel to a service.    *)
(* They share no state, so a behaviour is one of one component, chosen at  *)
(* the beginning, and the others stay as they are.                         *)
(***************************************************************************)
EXTENDS PiToolCall, KolDetail, ExportCache, ToolChannel, TLC

CONSTANTS u1, c1, h1, h2, q1, q2, q3, e1, e2, e3, w1, w2, w3, k1

MCOwner == (c1 :> u1)
MCSameCall == (h1 :> c1) @@ (h2 :> c1)

VARIABLE component

vars == <<piVars, kdVars, exVars, chVars, component>>

ServicesInit ==
  /\ component \in {"call", "detail", "export", "channel"}
  /\ PiInit /\ KdInit /\ ExInit /\ ChInit

\* A bound: the month only changes while one of the hooks has not begun, and then it never does.
PiCall ==
  /\ component = "call" /\ PiNext /\ UNCHANGED <<kdVars, exVars, chVars>>
  /\ month' = 1 \/ hook'[h2] = "idle"

Detail == component = "detail" /\ KdNext /\ UNCHANGED <<piVars, exVars, chVars>>

\* A bound: a build outlives its lease, or a file is damaged, not both.
Export ==
  /\ component = "export" /\ ExNext /\ UNCHANGED <<piVars, kdVars, chVars>>
  /\ exSlow' = 0 \/ exDamage' = 0

Channel == component = "channel" /\ ChNext /\ UNCHANGED <<piVars, kdVars, exVars>>

ServicesNext == (PiCall \/ Detail \/ Export \/ Channel) /\ UNCHANGED component

(***************************************************************************)
(* The fairness of each component; what it is asked of is not enabled      *)
(* while the component rests in its initial state.                         *)
(***************************************************************************)
ServicesSpec ==
  /\ ServicesInit /\ [][ServicesNext]_vars
  /\ PiFairness /\ KdFairness /\ ExFairness /\ ChFairness

(***************************************************************************)
(* Types, and the bookkeeping of each component.                           *)
(***************************************************************************)
ServicesTypeOK == PiTypeOK /\ KdTypeOK /\ ExTypeOK /\ ChTypeOK

(***************************************************************************)
(* However requests, builders, calls and workers come, overlap and die:    *)
(* heads, caches, files, places and breakers are what they say they are.   *)
(***************************************************************************)
ServicesAreSound ==
  HeadAndCacheAreTrue /\ FirstRunIsAlone /\ ExportIsSound /\ ChannelIsSound

(***************************************************************************)
(* Whoever asks for a detail or a file, or calls a tool, is answered or    *)
(* told of a failure.                                                      *)
(***************************************************************************)
ServicesAnswer == RequestsEnd /\ ExportsEnd /\ CallsEnd
=============================================================================
